---- MODULE Spec2Model ----
(***************************************************************************)
(* The museum harvesting scripts as one state machine.                     *)
(*                                                                         *)
(* Six provider scripts are modelled: rijksmuseum_scraper.py,              *)
(* harvard-scraper.py, met_scraper.py (a per-page pool of 5 workers, a     *)
(* metadata file per identifier), europeana_scraper.py,                    *)
(* cooper_hewitt_scraper.py and smithsonian-cloud-scraper.py (one          *)
(* sequential loop each).  The variable provider, chosen in Init, selects  *)
(* the script that runs; the provider's API is the environment, fixed in   *)
(* Init (what every identifier's requests answer, what every page of every *)
(* query answers), so that a second run of the script against the same     *)
(* output directory sees the same responses.                               *)
(***************************************************************************)
EXTENDS Integers, Sequences, FiniteSets, TLC

(***************************************************************************)
(* Bounds of the model.                                                    *)
(***************************************************************************)
\* identifiers the provider knows
NumIds == 2
\* the page size the scripts request (100 in every script), scaled down
PageSize == 2
\* page numbers above MaxPage + 1 are identified with MaxPage + 1
MaxPage == 4
\* the two result caps (MAX_RESULTS / max_images) the runs are started with
CapLow == 1
CapHigh == 6
\* the request counters kept for the claims count up to CountCap
CountCap == 2

\* the longest identifier enumerated for the filename stems
StemLen == 2

\* the longest list of additional images a record carries
MaxImages == 6

\* the images of a nested image collection
MaxColl == 2

(***************************************************************************)
(* Program constants.                                                      *)
(***************************************************************************)
\* ThreadPoolExecutor(max_workers=5)
MaxWorkers == 5
\* europeana: "if downloaded_count % 20 == 0: self.save_metadata()"
SaveEvery == 20

Ids == 1..NumIds

Providers == {"rijks", "harvard", "met", "europeana", "cooper", "smithsonian"}

\* the scripts that process a page's items in a ThreadPoolExecutor
Pooled == {"rijks", "harvard", "met"}

\* the scripts whose loop has a result cap (cooper's bound is max_pages)
Capped == {"rijks", "harvard", "met", "europeana"}

\* the methods try_alternate_search lists
AltMethods == 3

\* cooper scrape: safe_title[:50]
TitleMax == 50

\* smithsonian clean_filename: clean.lower()[:100]
CleanMax == 100

\* harvard art_object["images"][:5], met additional_images[:5]
AdditionalMax == 5

\* SEARCH_TERMS (its first two terms); the other scripts run one fixed query
SEARCH_TERMS == <<"cloud", "sky">>

Terms(p) == IF p \in Pooled THEN SEARCH_TERMS ELSE <<"cloud">>

Min(a, b) == IF a < b THEN a ELSE b

Bump(n) == Min(n + 1, CountCap)

(***************************************************************************)
(* The provider (the environment).                                         *)
(*                                                                         *)
(* What the requests about one identifier answer, one failure at a time:   *)
(*   ok        every request succeeds, the record has an image             *)
(*   nodetail  the detail request fails (non-2xx or transport error)       *)
(*   excluded  the record's text holds an excluded term                    *)
(*   noimage   the record names no image                                   *)
(*   dlfail    the image requests fail, or the image file cannot be        *)
(*             written (download_image returns False)                      *)
(*   badtype   the image URL answers 200 with a non-image Content-Type     *)
(*   wrfail    the metadata file cannot be written (open raises OSError)   *)
(*   nmnh      the record's unitCode holds NMNH (smithsonian)              *)
(*   viaapi    the record names no image; the getImages / getMedia calls   *)
(*             and the direct URL patterns do (cooper)                     *)
(*   viadirect only a direct URL pattern answers with an image (cooper)    *)
(*   nullfield the record has an image and an optional field that is null  *)
(*             or empty: headerImage null (rijks), additionalImages null    *)
(*             (met), an empty title list (europeana), title null (cooper)  *)
(*   nullnoimg the title is null and no strategy finds an image (cooper)    *)
(***************************************************************************)
KindsOf(p) ==
  CASE p = "rijks"       -> {"ok", "nodetail", "noimage", "dlfail", "badtype",
                             "wrfail"}
    [] p = "harvard"     -> {"ok", "excluded", "noimage", "dlfail", "badtype",
                             "wrfail"}
    [] p = "met"         -> {"ok", "nodetail", "excluded", "noimage", "dlfail",
                             "badtype", "wrfail"}
    [] p = "europeana"   -> {"ok", "excluded", "noimage", "dlfail", "badtype"}
    [] p = "cooper"      -> {"ok", "nodetail", "noimage", "dlfail", "badtype",
                             "viaapi", "viadirect", "wrfail"}
    [] p = "smithsonian" -> {"ok", "nmnh", "noimage", "dlfail", "badtype",
                             "wrfail"}

\* A search response: st is "ok" (a 2xx body with the envelope key, objs its
\* candidates), "httperr" (non-2xx), "transport" (the request raised) or
\* "nokey" (a 2xx body without the envelope key) or "badjson" (a 2xx body
\* that is not JSON: response.json() raises).
OkPage(objs) == [st |-> "ok", objs |-> objs]

ErrPage(st) == [st |-> st, objs |-> <<>>]

\* a full page: PageSize candidates, the identifiers in turn
Full == [i \in 1..PageSize |-> ((i - 1) % NumIds) + 1]

\* a full page holding one identifier PageSize times
Dup == [i \in 1..PageSize |-> 1]

\* a last page: fewer candidates than the page size
Short == [i \in 1..(PageSize - 1) |-> NumIds]

\* What the pages 1, 2, 3, ... of one query answer; the last entry answers
\* every later page too (<<OkPage(Full)>> is a provider of full pages forever).
Scripts ==
  { <<OkPage(Full)>>,
    <<OkPage(Full), OkPage(Full), OkPage(Short)>>,
    <<OkPage(Dup), OkPage(<<>>)>>,
    <<OkPage(Full), ErrPage("httperr")>>,
    <<OkPage(Full), ErrPage("transport")>>,
    <<ErrPage("transport")>>,
    <<ErrPage("nokey")>>,
    <<OkPage(Full), ErrPage("nokey")>>,
    <<OkPage(Full), ErrPage("badjson")>>,
    <<ErrPage("badjson")>> }

\* the second term's pages
Scripts2 == { <<OkPage(Short)>>, <<OkPage(Full), OkPage(<<>>)>> }

VARIABLES
  provider,    \* the script that runs
  kind,        \* the provider: identifier -> what its requests answer
  script,      \* the provider: term index -> what the query's pages answer
  alt,         \* the provider: the alternate search methods that find objects
  jsonErr,     \* the class of the exception response.json() raises
  apiKey,      \* the API credential: "given", or "missing" (the placeholder
               \* is still in place / --api-key was not passed)
  maxResults,  \* MAX_RESULTS / max_images
  run,         \* 1: the first run; 2: the second run on the same directory
  ctl,         \* the controller's position
  t,           \* index of the current term
  page,        \* page / current_page
  count,       \* total_processed / processed_count / downloaded_count
  total,       \* total_artworks / total_objects
  items,       \* the candidates of the page being processed
  task,        \* per candidate of the page: the item operation's state
  disk,        \* the output directory
  mem,         \* europeana: self.metadata; smithsonian: the four counters
  hist,        \* what the run has requested and written so far
  disk1,       \* the output directory as the first run left it
  px           \* the exclusion predicates: the record given, the answer

vars == <<provider, kind, script, alt, jsonErr, apiKey, maxResults, run, ctl, t, page,
          count, total,
          items, task, disk, mem, hist, disk1, px>>

env == <<provider, kind, script, alt, jsonErr, apiKey, maxResults, px>>

(***************************************************************************)
(* The output directory: the identifiers that have a metadata file, an     *)
(* image file, a thumbnail (rijks), a _noimage metadata file (cooper), and *)
(* metadata.json (europeana): absent, or the list of the saved entries.    *)
(***************************************************************************)
EmptyDisk ==
  [meta |-> {}, img |-> {}, thumb |-> {}, noimg |-> {},
   json |-> [exists |-> FALSE, entries |-> <<>>],
   dirs |-> FALSE]                \* the output directories exist

\* the output directory after setup_directories / __init__ / os.makedirs
Prepared == [EmptyDisk EXCEPT !.dirs = TRUE]

\* the counters kept for the claims, all of the current run
EmptyHist ==
  [det |-> [i \in Ids |-> 0],     \* detail requests per identifier
   dl |-> [i \in Ids |-> 0],      \* image requests per identifier
   wr |-> [i \in Ids |-> 0],      \* metadata files written per identifier
   searches |-> 0,                \* search requests of the current term
   asked |-> <<>>,                \* ... the page or start offset each asked
                                  \* for, and the rows received before it
   rows |-> 0,                    \* rows received for the current term
   sawLast |-> FALSE,             \* the term received an empty or short page
   late |-> FALSE,                \* ... and requested a page after it
   sawBad |-> FALSE,              \* the term received a 2xx body that is not
                                  \* JSON or lacks the envelope key
   lateBad |-> FALSE,             \* ... and requested a page after it
   failPage |-> 0,                \* the page whose search request failed or
                                  \* answered a malformed body (0: none)
   proc |-> 0,                    \* item operations carried out for the term
   succ |-> 0,                    \* ... those that returned True
   termsDone |-> 0,               \* terms whose loop has returned
   primaryOk |-> FALSE,           \* cooper, the latest page: search_objects
                                  \* returned at least one object
   altCalled |-> <<>>,            \* ... the alternate methods requested
   altFound |-> 0]                \* ... the method whose objects are the page

EmptyMem == [metadata |-> <<>>, eligible |-> 0, attempted |-> 0,
             successful |-> 0, nmnh |-> 0,
             start |-> 0]         \* smithsonian: start_index

\* the item operation before it starts
NewTask ==
  [pc |-> "queued", ok |-> FALSE, seen |-> FALSE, exc |-> FALSE,
   early |-> FALSE, det |-> 0, dl |-> 0, wr |-> 0,
   exn |-> FALSE,      \* the operation raised
   can |-> FALSE,      \* the operation was cancelled / never carried out
   dlok |-> "none",    \* what the download operation returned: "ok", "fail"
   strat |-> {},       \* cooper: the URL strategies invoked
   src |-> 0]          \* cooper: the strategy whose URL is downloaded

PageAt(s, p) == s[Min(p, Len(s))]

\* page += 1
NextPage(p) == IF p <= MaxPage THEN p + 1 ELSE p


\* the item operations and the pages of one term that the counters tell apart
ProcCap == PageSize * (MaxPage + 2)

(***************************************************************************)
(* What the provider answers about one identifier.                         *)
(***************************************************************************)
\* the detail request fails: get_artwork_details / get_object_details -> None
DetailFails(id) == kind[id] = "nodetail"

\* the record names an image URL (webImage.url, primaryimageurl, primaryImage,
\* edmPreview, online_media)
HasImage(id) == kind[id] # "noimage"

\* the image request answers 2xx
ImageFetchOk(id) == kind[id] # "dlfail"

\* a Content-Type test that every response passes
AnyType(id) == TRUE

\* the image response's Content-Type begins with image/
ImageTyped(id) == kind[id] # "badtype"

\* open(metadata_path, 'w') raises
WriteFails(id) == kind[id] = "wrfail"

\* an optional field of the record is null or empty
FieldNull(id) == kind[id] \in {"nullfield", "nullnoimg"}

(***************************************************************************)
(* The exclusion predicates on text.  A string is a sequence of            *)
(* characters; the strings of the model use letters, ' ', '.', ',', '-'    *)
(* (none of which json.dumps escapes).                                     *)
(***************************************************************************)
UpperCase == <<"A", "B", "C", "D", "E", "F", "G", "H", "I", "J", "K", "L", "M",
               "N", "O", "P", "Q", "R", "S", "T", "U", "V", "W", "X", "Y", "Z">>

LowerCase == <<"a", "b", "c", "d", "e", "f", "g", "h", "i", "j", "k", "l", "m",
               "n", "o", "p", "q", "r", "s", "t", "u", "v", "w", "x", "y", "z">>

\* c.lower() of one character: the lower-case letter of an upper-case one;
\* of U+0130 (capital I with dot above) the two characters 'i' and U+0307
\* (combining dot above); U+03D2 (upsilon with hook symbol) and every other
\* character as they are
LowerOf(c) ==
  IF \E n \in DOMAIN UpperCase : UpperCase[n] = c
  THEN <<LowerCase[CHOOSE n \in DOMAIN UpperCase : UpperCase[n] = c]>>
  ELSE IF c = "U+0130" THEN <<"i", "U+0307">>
  ELSE <<c>>

\* a lower() that leaves the case as it is
SameCase(str) == str

\* str.lower()
PyLower(str) ==
  LET before(k) ==
        (k - 1) + Cardinality({j \in 1..(k - 1) : Len(LowerOf(str[j])) = 2})
      from(i) ==
        CHOOSE k \in DOMAIN str :
          before(k) < i /\ i <= before(k) + Len(LowerOf(str[k])) IN
  [i \in 1..before(Len(str) + 1) |-> LowerOf(str[from(i)])[i - before(from(i))]]

\* "needle in hay" of two strings: the scan from the offset from
RECURSIVE ScanFrom(_, _, _)
ScanFrom(needle, hay, from) ==
  IF from + Len(needle) - 1 > Len(hay) THEN FALSE
  ELSE IF \A k \in 1..Len(needle) : hay[from + k - 1] = needle[k] THEN TRUE
  ELSE ScanFrom(needle, hay, from + 1)

PyIn(needle, hay) == ScanFrom(needle, hay, 1)

\* sep.join(parts)
RECURSIVE PyJoin(_, _)
PyJoin(sep, parts) ==
  IF parts = <<>> THEN <<>>
  ELSE IF Len(parts) = 1 THEN parts[1]
  ELSE parts[1] \o sep \o PyJoin(sep, Tail(parts))

\* EXCLUDED_TERMS / self.excluded_terms:
\* "saint cloud", "saint-cloud", "st cloud", "st. cloud"
EXCLUDED_TERMS ==
  << <<"s", "a", "i", "n", "t", " ", "c", "l", "o", "u", "d">>,
     <<"s", "a", "i", "n", "t", "-", "c", "l", "o", "u", "d">>,
     <<"s", "t", " ", "c", "l", "o", "u", "d">>,
     <<"s", "t", ".", " ", "c", "l", "o", "u", "d">> >>

\* europeana should_exclude_item: a field's first value, or '' when the
\* field is missing or empty
FirstValue(field) == IF field # <<>> THEN field[1] ELSE <<>>

EurTextFields(item) ==
  << FirstValue(item.title), FirstValue(item.dcDescription),
     FirstValue(item.dcSubject), FirstValue(item.dcCreator) >>

should_exclude_item(item) ==
  LET combined_text == PyLower(PyJoin(<<" ">>, EurTextFields(item))) IN
  \E n \in DOMAIN EXCLUDED_TERMS : PyIn(PyLower(EXCLUDED_TERMS[n]), combined_text)

\* json.dumps of a record of string fields, given as its <<key, value>>
\* pairs in order: {"key": "value", "key": "value"}
JsonPair(kv) == <<"\"">> \o kv[1] \o <<"\"", ":", " ", "\"">> \o kv[2] \o <<"\"">>

JsonDumps(rec) ==
  <<"{">> \o PyJoin(<<",", " ">>, [k \in DOMAIN rec |-> JsonPair(rec[k])]) \o <<"}">>

\* should_exclude of harvard and met
should_exclude(metadata) ==
  IF metadata = <<>> THEN TRUE
  ELSE LET metadata_str == PyLower(JsonDumps(metadata)) IN
       \E n \in DOMAIN EXCLUDED_TERMS :
         PyIn(PyLower(EXCLUDED_TERMS[n]), metadata_str)

\* the texts of the records the predicates are given
SaintCloudPalaceGardens ==
  <<"S", "a", "i", "n", "t", " ", "C", "l", "o", "u", "d", " ", "P", "a", "l", "a", "c", "e", " ", "G", "a", "r", "d", "e", "n", "s">>

CloudStudyMorning ==
  <<"C", "l", "o", "u", "d", " ", "S", "t", "u", "d", "y", ",", " ", "M", "o", "r", "n", "i", "n", "g">>

StCloud == <<"S", "t", ".", " ", "C", "l", "o", "u", "d">>

SaintWord == <<"S", "a", "i", "n", "t">>

CloudWord == <<"C", "l", "o", "u", "d">>

SaintCloudCity == <<"S", "a", "i", "n", "t", "-", "C", "l", "o", "u", "d">>

Texts == {SaintCloudPalaceGardens, CloudStudyMorning, SaintWord, CloudWord}

\* the values of one list field of a europeana item
Values(texts) ==
  {<<>>} \cup {<<a>> : a \in texts} \cup {<<a, b>> : a \in texts, b \in texts}

EurItems ==
  [title : Values({SaintCloudPalaceGardens, CloudStudyMorning, SaintWord}),
   dcDescription : Values({}) \cup {<<CloudWord>>, <<StCloud>>},
   dcSubject : {<<>>, <<CloudWord, StCloud>>},
   dcCreator : {<<>>, <<SaintWord>>}]

KeyTitle == <<"t", "i", "t", "l", "e">>

KeyDescription == <<"d", "e", "s", "c", "r", "i", "p", "t", "i", "o", "n">>

KeyCity == <<"c", "i", "t", "y">>

\* the records of harvard and met: the empty record, and records with a
\* title, a description and a field that is none of the text fields
Records ==
  {<<>>} \cup
  { << <<KeyTitle, a>>, <<KeyDescription, b>>, <<KeyCity, c>> >> :
      a \in Texts, b \in {<<>>, CloudWord, StCloud},
      c \in {<<>>, CloudWord, SaintCloudCity} }

NoItem == [title |-> <<>>, dcDescription |-> <<>>, dcSubject |-> <<>>,
           dcCreator |-> <<>>]

NoPx == [fn |-> "none", item |-> NoItem, rec |-> <<>>, done |-> FALSE,
         out |-> FALSE, id |-> <<>>, title |-> <<>>, stem |-> <<>>,
         imgs |-> <<>>, files |-> <<>>]

\* response.json() on a body that is not JSON raises
\* requests.exceptions.JSONDecodeError, a RequestException (requests 2.27 and
\* later), or a ValueError that is no RequestException (earlier versions)
JsonErrors == {"RequestException", "ValueError"}

HasBadJson(s) == \E k \in DOMAIN s : s[k].st = "badjson"

(***************************************************************************)
(* Initial state: a provider, a result cap, the output directories made    *)
(* and empty, the loop over the terms about to start.                      *)
(***************************************************************************)
Init ==
  /\ provider \in Providers
  /\ kind \in [Ids -> KindsOf(provider)]
  /\ script \in IF provider \in Pooled
                THEN {<<a, b>> : a \in Scripts, b \in Scripts2}
                ELSE {<<a>> : a \in Scripts}
  /\ alt \in IF provider = "cooper" THEN SUBSET (1..AltMethods) ELSE {{}}
  /\ jsonErr \in IF provider \in Pooled /\ HasBadJson(script[1])
                 THEN JsonErrors ELSE {"ValueError"}
  /\ apiKey = "given"
  /\ maxResults \in IF provider \in Capped THEN {CapLow, CapHigh} ELSE {CapHigh}
  /\ run = 1
  /\ ctl = "loop"
  /\ t = 1
  /\ page = 1
  /\ count = 0
  /\ total = 0
  /\ items = <<>>
  /\ task = <<>>
  /\ disk = Prepared
  /\ mem = EmptyMem
  /\ hist = EmptyHist
  /\ disk1 = EmptyDisk
  /\ px = NoPx

(***************************************************************************)
(* The item operation of the pooled scripts: process_artwork (rijks) and   *)
(* process_object (harvard, met).                                          *)
(***************************************************************************)
\* an existence test that never finds the file
MissingCheck(id) == FALSE

\* os.path.exists(metadata_path)
AlreadyProcessed(id) == id \in disk.meta

\* an exclusion test that excludes nothing
NeverExclude(id) == FALSE

\* should_exclude(record) of harvard and met: the record holds an excluded term
ShouldExclude(id) == kind[id] = "excluded"

\* the operation returns ok
Returned(tk, ok) == [tk EXCEPT !.pc = "done", !.ok = ok]

\* the operation ends with an exception
Raised(tk) == [tk EXCEPT !.pc = "done", !.ok = FALSE, !.exn = TRUE]

\* what download_image returned
Downloaded(ok) == IF ok THEN "ok" ELSE "fail"

\* executor.map hands the items to the workers in order, MaxWorkers at a time
Running == {i \in DOMAIN task : task[i].pc \notin {"queued", "done"}}

\* a pool that starts an operation whatever the number of busy workers
StartUnbounded(i) ==
  /\ ctl = "pool"
  /\ i \in DOMAIN task
  /\ task[i].pc = "queued"
  /\ \A j \in DOMAIN task : j < i => task[j].pc # "queued"

\* a worker takes the next operation
CanStart(i) ==
  /\ ctl = "pool"
  /\ i \in DOMAIN task
  /\ task[i].pc = "queued"
  /\ \A j \in DOMAIN task : j < i => task[j].pc # "queued"
  /\ Cardinality(Running) < MaxWorkers

\* the counters of the term when an item operation has returned ok
Counted(h, ok) ==
  [h EXCEPT !.proc = Min(@ + 1, ProcCap),
            !.succ = IF ok THEN Min(@ + 1, ProcCap) ELSE @]

\* process_artwork, to the existence check
RijksStart(i) ==
  LET id == items[i]
      tk == [task[i] EXCEPT !.seen = id \in disk.meta] IN
  /\ provider = "rijks"
  /\ CanStart(i)
  /\ IF AlreadyProcessed(id)
     THEN /\ task' = [task EXCEPT ![i] = Returned(tk, TRUE)]
          /\ hist' = Counted(hist, TRUE)
     ELSE /\ task' = [task EXCEPT ![i] = [tk EXCEPT !.pc = "detail"]]
          /\ hist' = hist
  /\ UNCHANGED <<env, run, ctl, t, page, count, total, items, disk, mem, disk1>>

\* process_artwork: get_artwork_details and the "artObject" test
RijksDetail(i) ==
  LET id == items[i]
      tk == [task[i] EXCEPT !.det = @ + 1] IN
  /\ provider = "rijks"
  /\ ctl = "pool"
  /\ i \in DOMAIN task
  /\ task[i].pc = "detail"
  /\ IF DetailFails(id)
     THEN /\ task' = [task EXCEPT ![i] = Returned(tk, FALSE)]
          /\ hist' = Counted([hist EXCEPT !.det[id] = Bump(@)], FALSE)
     ELSE /\ task' = [task EXCEPT ![i] = [tk EXCEPT !.pc = "dl"]]
          /\ hist' = [hist EXCEPT !.det[id] = Bump(@)]
  /\ UNCHANGED <<env, run, ctl, t, page, count, total, items, disk, mem, disk1>>

\* process_artwork: the main image and the thumbnail
RijksDownload(i) ==
  LET id == items[i] IN
  /\ provider = "rijks"
  /\ ctl = "pool"
  /\ i \in DOMAIN task
  /\ task[i].pc = "dl"
  /\ IF FieldNull(id)
     THEN \* art_object.get("headerImage", {}).get("url") on None raises
          /\ task' = [task EXCEPT ![i] =
                        Raised([@ EXCEPT !.dl = @ + 1, !.dlok = "ok"])]
          /\ hist' = Counted([hist EXCEPT !.dl[id] = Bump(@)], FALSE)
          /\ disk' = [disk EXCEPT !.img = @ \cup {id}]
     ELSE IF HasImage(id)
     THEN /\ task' = [task EXCEPT ![i] =
                        [@ EXCEPT !.pc = "write", !.dl = @ + 1,
                                  !.dlok = Downloaded(ImageFetchOk(id))]]
          /\ hist' = [hist EXCEPT !.dl[id] = Bump(@)]
          /\ disk' = IF ImageFetchOk(id)
                     THEN [disk EXCEPT !.img = @ \cup {id}, !.thumb = @ \cup {id}]
                     ELSE disk
     ELSE /\ task' = [task EXCEPT ![i] = [@ EXCEPT !.pc = "write"]]
          /\ UNCHANGED <<hist, disk>>
  /\ UNCHANGED <<env, run, ctl, t, page, count, total, items, mem, disk1>>

\* process_object of harvard, to the image URL test
HarvardStart(i) ==
  LET id == items[i]
      tk == [task[i] EXCEPT !.seen = id \in disk.meta] IN
  /\ provider = "harvard"
  /\ CanStart(i)
  /\ IF AlreadyProcessed(id)
     THEN /\ task' = [task EXCEPT ![i] = Returned(tk, TRUE)]
          /\ hist' = Counted(hist, TRUE)
     ELSE IF ShouldExclude(id) \/ ~HasImage(id)
     THEN /\ task' = [task EXCEPT ![i] = Returned([tk EXCEPT !.exc = TRUE], FALSE)]
          /\ hist' = Counted(hist, FALSE)
     ELSE /\ task' = [task EXCEPT ![i] = [tk EXCEPT !.exc = TRUE, !.pc = "dl"]]
          /\ hist' = hist
  /\ UNCHANGED <<env, run, ctl, t, page, count, total, items, disk, mem, disk1>>

\* an operation that writes the metadata file before it downloads
MetadataFirst(i) ==
  /\ provider = "harvard"
  /\ ctl = "pool"
  /\ i \in DOMAIN task
  /\ task[i].pc = "dl"
  /\ task' = [task EXCEPT ![i] = [@ EXCEPT !.pc = "write", !.wr = @ + 1]]
  /\ disk' = [disk EXCEPT !.meta = @ \cup {items[i]}]
  /\ UNCHANGED <<env, run, ctl, t, page, count, total, items, mem, hist, disk1>>

\* process_object of harvard: the primary image (and the additional ones)
HarvardDownload(i) ==
  LET id == items[i] IN
  /\ provider = "harvard"
  /\ ctl = "pool"
  /\ i \in DOMAIN task
  /\ task[i].pc = "dl"
  /\ task' = [task EXCEPT ![i] = [@ EXCEPT !.pc = "write", !.dl = @ + 1,
                                           !.early = @ \/ ~task[i].exc,
                                           !.dlok = Downloaded(ImageFetchOk(id))]]
  /\ hist' = [hist EXCEPT !.dl[id] = Bump(@)]
  /\ disk' = IF ImageFetchOk(id) THEN [disk EXCEPT !.img = @ \cup {id}] ELSE disk
  /\ UNCHANGED <<env, run, ctl, t, page, count, total, items, mem, disk1>>

\* process_object of met, to the existence check
MetStart(i) ==
  LET id == items[i]
      tk == [task[i] EXCEPT !.seen = id \in disk.meta] IN
  /\ provider = "met"
  /\ CanStart(i)
  /\ IF AlreadyProcessed(id)
     THEN /\ task' = [task EXCEPT ![i] = Returned(tk, TRUE)]
          /\ hist' = Counted(hist, TRUE)
     ELSE /\ task' = [task EXCEPT ![i] = [tk EXCEPT !.pc = "detail"]]
          /\ hist' = hist
  /\ UNCHANGED <<env, run, ctl, t, page, count, total, items, disk, mem, disk1>>

\* process_object of met: get_object_details, then should_exclude
MetDetail(i) ==
  LET id == items[i]
      tk == [task[i] EXCEPT !.det = @ + 1, !.early = @ \/ ~task[i].exc]
      h == [hist EXCEPT !.det[id] = Bump(@)] IN
  /\ provider = "met"
  /\ ctl = "pool"
  /\ i \in DOMAIN task
  /\ task[i].pc = "detail"
  /\ IF DetailFails(id)
     THEN /\ task' = [task EXCEPT ![i] = Returned(tk, FALSE)]
          /\ hist' = Counted(h, FALSE)
     ELSE IF ShouldExclude(id)
     THEN /\ task' = [task EXCEPT ![i] = Returned([tk EXCEPT !.exc = TRUE], FALSE)]
          /\ hist' = Counted(h, FALSE)
     ELSE /\ task' = [task EXCEPT ![i] = [tk EXCEPT !.exc = TRUE, !.pc = "dl"]]
          /\ hist' = h
  /\ UNCHANGED <<env, run, ctl, t, page, count, total, items, disk, mem, disk1>>

\* process_object of met: the primary image (and the additional ones)
MetDownload(i) ==
  LET id == items[i] IN
  /\ provider = "met"
  /\ ctl = "pool"
  /\ i \in DOMAIN task
  /\ task[i].pc = "dl"
  /\ IF FieldNull(id)
     THEN \* additional_images[:5] on None raises
          /\ task' = [task EXCEPT ![i] =
                        Raised([@ EXCEPT !.dl = @ + 1, !.dlok = "ok",
                                         !.early = @ \/ ~task[i].exc])]
          /\ hist' = Counted([hist EXCEPT !.dl[id] = Bump(@)], FALSE)
          /\ disk' = [disk EXCEPT !.img = @ \cup {id}]
     ELSE IF HasImage(id)
     THEN /\ task' = [task EXCEPT ![i] = [@ EXCEPT !.pc = "write", !.dl = @ + 1,
                                                   !.early = @ \/ ~task[i].exc,
                                                   !.dlok = Downloaded(ImageFetchOk(id))]]
          /\ hist' = [hist EXCEPT !.dl[id] = Bump(@)]
          /\ disk' = IF ImageFetchOk(id) THEN [disk EXCEPT !.img = @ \cup {id}] ELSE disk
     ELSE /\ task' = [task EXCEPT ![i] = [@ EXCEPT !.pc = "write"]]
          /\ UNCHANGED <<hist, disk>>
  /\ UNCHANGED <<env, run, ctl, t, page, count, total, items, mem, disk1>>

\* an operation that returns True without writing the metadata file
WriteSkipped(i) ==
  /\ provider \in Pooled
  /\ ctl = "pool"
  /\ i \in DOMAIN task
  /\ task[i].pc = "write"
  /\ task' = [task EXCEPT ![i] = Returned(@, TRUE)]
  /\ hist' = Counted(hist, TRUE)
  /\ UNCHANGED <<env, run, ctl, t, page, count, total, items, disk, mem, disk1>>

\* "Save metadata": json.dump to metadata_path, return True
WriteMetadata(i) ==
  LET id == items[i] IN
  /\ provider \in Pooled
  /\ ctl = "pool"
  /\ i \in DOMAIN task
  /\ task[i].pc = "write"
  /\ IF WriteFails(id)
     THEN /\ task' = [task EXCEPT ![i] = Raised(@)]
          /\ hist' = Counted(hist, FALSE)
          /\ disk' = disk
     ELSE /\ task' = [task EXCEPT ![i] = Returned([@ EXCEPT !.wr = @ + 1], TRUE)]
          /\ hist' = Counted([hist EXCEPT !.wr[id] = Bump(@)], TRUE)
          /\ disk' = [disk EXCEPT !.meta = @ \cup {id}]
  /\ UNCHANGED <<env, run, ctl, t, page, count, total, items, mem, disk1>>

\* list(executor.map(...)) of harvard and met: the result iterator re-raises
\* the exception of the first operation that raised and, on its way out,
\* cancels the operations that no worker has started
PoolCancel ==
  /\ provider \in {"harvard", "met"}
  /\ ctl = "pool"
  /\ \E i \in DOMAIN task :
       /\ task[i].exn
       /\ \A j \in 1..(i - 1) : task[j].pc = "done"
  /\ \E i \in DOMAIN task : task[i].pc = "queued"
  /\ task' = [i \in DOMAIN task |->
                IF task[i].pc = "queued"
                THEN [task[i] EXCEPT !.pc = "done", !.can = TRUE]
                ELSE task[i]]
  /\ UNCHANGED <<env, run, ctl, t, page, count, total, items, disk, mem, hist,
                 disk1>>

(***************************************************************************)
(* The controllers of the pooled scripts: search_and_download and main.    *)
(***************************************************************************)
\* a controller that does not wait for the pool
NeverWaits == TRUE

\* the with block of the pool ends: every operation has finished
AllDone == \A i \in DOMAIN task : task[i].pc = "done"

\* an operation of the page raised
SomeRaised == \E i \in DOMAIN task : task[i].exn

Successful == Cardinality({i \in DOMAIN task : task[i].ok})

\* the response is malformed: a 2xx body that is not JSON or lacks the key
Malformed(resp) == resp.st \in {"nokey", "badjson"}

\* a start offset that is the page number
PageAsStart(p) == p

\* search_europeana: 'start': ((page - 1) * self.rows_per_page) + 1
StartParam(p) == ((p - 1) * PageSize) + 1

\* what the search request of the loop's page p asks for: the page number
\* (rijks, harvard, cooper), the start offset (europeana), start_index
\* (smithsonian)
RequestParam(p) ==
  CASE provider = "europeana" -> StartParam(p)
    [] provider = "smithsonian" -> mem.start
    [] OTHER -> p

\* a search request for page p is issued and answers resp
Searched(h, resp, p) ==
  [h EXCEPT !.searches = Min(@ + 1, MaxPage + 2),
            !.asked = IF Len(@) <= MaxPage
                      THEN Append(@, [param |-> RequestParam(p), rows |-> h.rows])
                      ELSE @,
            !.rows = IF resp.st = "ok" THEN Min(@ + Len(resp.objs), ProcCap) ELSE @,
            !.late = @ \/ h.sawLast,
            !.sawLast = @ \/ (resp.st = "ok" /\ resp.objs = <<>>),
            !.lateBad = @ \/ h.sawBad,
            !.sawBad = @ \/ Malformed(resp),
            !.failPage = IF resp.st # "ok" /\ @ = 0 THEN p ELSE @]

\* the exception of response.json() is one the search function catches
\* (except requests.exceptions.RequestException)
JsonErrorCaught == jsonErr = "RequestException"

\* the search function of a pooled script raises
SearchRaises(resp) == resp.st = "badjson" /\ ~JsonErrorCaught

\* the page of candidates objs is handed to the pool
StartPool(objs) ==
  /\ items' = objs
  /\ task' = [i \in 1..Len(objs) |-> NewTask]
  /\ ctl' = "pool"

\* a loop without the last-page test
NoLastPage(n) == FALSE

\* "len(art_objects) < 100": a page of n candidates is the last one
LastPage(n) == n < PageSize

\* rijks search_and_download: the while test, search_rijksmuseum, the two breaks
RijksSearch ==
  LET resp == PageAt(script[t], page) IN
  /\ provider = "rijks"
  /\ ctl = "loop"
  /\ IF count < maxResults
     THEN /\ hist' = Searched(hist, resp, page)
          /\ IF SearchRaises(resp)
             THEN /\ ctl' = "crashed"
                  /\ UNCHANGED <<items, task>>
             ELSE IF resp.st = "ok" /\ resp.objs # <<>>
             THEN StartPool(resp.objs)
             ELSE /\ ctl' = "ret"
                  /\ UNCHANGED <<items, task>>
     ELSE /\ ctl' = "ret"
          /\ UNCHANGED <<hist, items, task>>
  /\ UNCHANGED <<env, run, t, page, count, total, disk, mem, disk1>>

\* the number rijks adds to total_processed after a page
RijksCounted == Len(items)

\* rijks search_and_download: the pool has drained
RijksJoin ==
  LET n == count + RijksCounted IN
  /\ provider = "rijks"
  /\ ctl = "pool"
  /\ AllDone
  /\ count' = n
  /\ page' = NextPage(page)
  /\ hist' = [hist EXCEPT !.sawLast = @ \/ Len(items) < PageSize]
  /\ ctl' = IF n >= maxResults \/ LastPage(Len(items)) THEN "ret" ELSE "loop"
  /\ items' = <<>>
  /\ task' = <<>>
  /\ UNCHANGED <<env, run, t, total, disk, mem, disk1>>

\* harvard search_and_download: the while test, search_harvard, the break
HarvardSearch ==
  LET resp == PageAt(script[t], page) IN
  /\ provider = "harvard"
  /\ ctl = "loop"
  /\ IF count < maxResults
     THEN /\ hist' = Searched(hist, resp, page)
          /\ IF SearchRaises(resp)
             THEN /\ ctl' = "crashed"
                  /\ UNCHANGED <<items, task>>
             ELSE IF resp.st = "ok" /\ resp.objs # <<>>
             THEN StartPool(resp.objs)
             ELSE /\ ctl' = "ret"
                  /\ UNCHANGED <<items, task>>
     ELSE /\ ctl' = "ret"
          /\ UNCHANGED <<hist, items, task>>
  /\ UNCHANGED <<env, run, t, page, count, total, disk, mem, disk1>>

\* a count of the page's candidates, whatever their outcome
CountedAll == Len(items)

\* the number harvard adds to processed_count after a page:
\* sum(1 for r in results if r)
HarvardCounted == Successful

\* harvard search_and_download: the pool has drained; an exception of an
\* operation leaves search_and_download and main
HarvardJoin ==
  LET n == count + HarvardCounted IN
  /\ provider = "harvard"
  /\ ctl = "pool"
  /\ AllDone
  /\ IF SomeRaised
     THEN /\ ctl' = "crashed"
          /\ UNCHANGED <<count, page, hist>>
     ELSE /\ count' = n
          /\ page' = NextPage(page)
          /\ hist' = [hist EXCEPT !.sawLast = @ \/ Len(items) < PageSize]
          /\ ctl' = IF LastPage(Len(items)) \/ n >= maxResults
                    THEN "ret" ELSE "loop"
  /\ items' = IF SomeRaised THEN items ELSE <<>>
  /\ task' = IF SomeRaised THEN task ELSE <<>>
  /\ UNCHANGED <<env, run, t, total, disk, mem, disk1>>

\* met search_and_download: search_met and object_ids[:MAX_RESULTS]
MetSearch ==
  LET resp == PageAt(script[t], 1)
      ids == IF resp.st = "ok" THEN resp.objs ELSE <<>>
      cut == SubSeq(ids, 1, Min(Len(ids), maxResults)) IN
  /\ provider = "met"
  /\ ctl = "loop"
  /\ hist' = [Searched(hist, resp, 1) EXCEPT !.sawLast = TRUE]
  /\ IF SearchRaises(resp)
     THEN /\ ctl' = "crashed"
          /\ UNCHANGED <<items, task>>
     ELSE IF cut # <<>>
     THEN StartPool(cut)
     ELSE /\ ctl' = "ret"
          /\ UNCHANGED <<items, task>>
  /\ UNCHANGED <<env, run, t, page, count, total, disk, mem, disk1>>

\* met search_and_download: the pool has drained
MetJoin ==
  /\ provider = "met"
  /\ ctl = "pool"
  /\ AllDone
  /\ IF SomeRaised
     THEN /\ ctl' = "crashed"
          /\ count' = count
     ELSE /\ count' = Successful
          /\ ctl' = "ret"
  /\ items' = IF SomeRaised THEN items ELSE <<>>
  /\ task' = IF SomeRaised THEN task ELSE <<>>
  /\ UNCHANGED <<env, run, t, page, total, disk, mem, hist, disk1>>

\* the counters of a term, for the next term
NextTerm(h) ==
  [h EXCEPT !.searches = 0, !.asked = <<>>, !.rows = 0, !.sawLast = FALSE, !.late = FALSE, !.sawBad = FALSE,
            !.lateBad = FALSE, !.failPage = 0, !.proc = 0,
            !.succ = 0, !.termsDone = Min(@ + 1, Len(SEARCH_TERMS))]

\* main: search_and_download returns, the loop over SEARCH_TERMS goes on
Return ==
  /\ provider \in Pooled
  /\ ctl = "ret"
  /\ total' = total + count
  /\ IF t < Len(Terms(provider))
     THEN /\ t' = t + 1
          /\ ctl' = "loop"
     ELSE /\ t' = t
          /\ ctl' = "finished"
  /\ page' = 1
  /\ count' = 0
  /\ hist' = NextTerm(hist)
  /\ UNCHANGED <<env, run, items, task, disk, mem, disk1>>

\* the script is run again on the same output directory
SecondRun ==
  /\ run = 1
  /\ ctl \in {"finished", "crashed"}
  /\ run' = 2
  /\ ctl' = "loop"
  /\ t' = 1
  /\ page' = 1
  /\ count' = 0
  /\ total' = 0
  /\ items' = <<>>
  /\ task' = <<>>
  /\ mem' = EmptyMem
  /\ hist' = EmptyHist
  /\ disk1' = disk
  /\ UNCHANGED <<env, disk>>

(***************************************************************************)
(* The sequential scripts process the candidates of a page one by one.     *)
(***************************************************************************)
CanStartSeq(i) ==
  /\ ctl = "pool"
  /\ i \in DOMAIN task
  /\ task[i].pc = "queued"
  /\ \A j \in DOMAIN task : j < i => task[j].pc = "done"

At(i, pc) ==
  /\ ctl = "pool"
  /\ i \in DOMAIN task
  /\ task[i].pc = pc

(***************************************************************************)
(* europeana_scraper.py: EuropeanaCloudScraper.run                         *)
(***************************************************************************)
\* should_exclude_item(item)
EurShouldExclude(id) == kind[id] = "excluded"

\* save_metadata: metadata.json holds self.metadata
SaveJson(d) == [d EXCEPT !.json = [exists |-> TRUE, entries |-> mem.metadata]]

\* run: the while test and search_europeana
EurSearch ==
  LET resp == PageAt(script[t], page) IN
  /\ provider = "europeana"
  /\ ctl = "loop"
  /\ IF count < maxResults
     THEN /\ hist' = Searched(hist, resp, page)
          /\ IF resp.st \in {"transport", "badjson"}
             THEN /\ ctl' = "crashed"
                  /\ UNCHANGED <<items, task>>
             ELSE IF resp.st = "ok" /\ resp.objs # <<>>
             THEN StartPool(resp.objs)
             ELSE /\ ctl' = "ret"
                  /\ UNCHANGED <<items, task>>
     ELSE /\ ctl' = "ret"
          /\ UNCHANGED <<hist, items, task>>
  /\ UNCHANGED <<env, run, t, page, count, total, disk, mem, disk1>>

\* run, one item: the cap test, should_exclude_item, the edmPreview test
EurStart(i) ==
  LET id == items[i] IN
  /\ provider = "europeana"
  /\ CanStartSeq(i)
  /\ IF count >= maxResults
     THEN /\ task' = [j \in DOMAIN task |->
                        IF j >= i THEN Returned(task[j], FALSE) ELSE task[j]]
          /\ hist' = hist
          /\ ctl' = ctl
     ELSE IF EurShouldExclude(id)
     THEN /\ task' = [task EXCEPT ![i] = Returned([@ EXCEPT !.exc = TRUE], FALSE)]
          /\ hist' = Counted(hist, FALSE)
          /\ ctl' = ctl
     ELSE IF FieldNull(id)
     THEN \* item.get('title', ['Untitled'])[0] on an empty list raises, in no try
          /\ task' = [task EXCEPT ![i] = Raised([@ EXCEPT !.exc = TRUE])]
          /\ hist' = Counted(hist, FALSE)
          /\ ctl' = "crashed"
     ELSE IF ~HasImage(id)
     THEN /\ task' = [task EXCEPT ![i] = Returned([@ EXCEPT !.exc = TRUE], FALSE)]
          /\ hist' = Counted(hist, FALSE)
          /\ ctl' = ctl
     ELSE /\ task' = [task EXCEPT ![i] = [@ EXCEPT !.exc = TRUE, !.pc = "dl"]]
          /\ hist' = hist
          /\ ctl' = ctl
  /\ UNCHANGED <<env, run, t, page, count, total, items, disk, mem, disk1>>

\* run, one item: the image request, the file, the metadata entry
EurDownload(i) ==
  LET id == items[i]
      tk == [task[i] EXCEPT !.dl = @ + 1, !.early = @ \/ ~task[i].exc,
                            !.dlok = Downloaded(ImageFetchOk(id))]
      h == [hist EXCEPT !.dl[id] = Bump(@)] IN
  /\ provider = "europeana"
  /\ At(i, "dl")
  /\ IF ImageFetchOk(id)
     THEN /\ task' = [task EXCEPT ![i] = Returned(tk, TRUE)]
          /\ hist' = Counted(h, TRUE)
          /\ disk' = [disk EXCEPT !.img = @ \cup {id}]
          /\ mem' = [mem EXCEPT !.metadata = Append(@, id)]
          /\ count' = count + 1
     ELSE /\ task' = [task EXCEPT ![i] = Returned(tk, FALSE)]
          /\ hist' = Counted(h, FALSE)
          /\ UNCHANGED <<disk, mem, count>>
  /\ UNCHANGED <<env, run, ctl, t, page, total, items, disk1>>

\* run, after the page's items: the periodic save, the last-page test
EurJoin ==
  /\ provider = "europeana"
  /\ ctl = "pool"
  /\ AllDone
  /\ disk' = IF count % SaveEvery = 0 THEN SaveJson(disk) ELSE disk
  /\ hist' = [hist EXCEPT !.sawLast = @ \/ Len(items) < PageSize]
  /\ IF LastPage(Len(items))
     THEN /\ ctl' = "ret"
          /\ page' = page
     ELSE /\ ctl' = "loop"
          /\ page' = NextPage(page)
  /\ items' = <<>>
  /\ task' = <<>>
  /\ UNCHANGED <<env, run, t, count, total, mem, disk1>>

\* run: "Final save of metadata"
EurFinish ==
  /\ provider = "europeana"
  /\ ctl = "ret"
  /\ disk' = SaveJson(disk)
  /\ total' = count
  /\ ctl' = "finished"
  /\ hist' = [hist EXCEPT !.termsDone = 1]
  /\ UNCHANGED <<env, run, t, page, count, items, task, mem, disk1>>

(***************************************************************************)
(* cooper_hewitt_scraper.py: CooperHewittScraper.scrape                    *)
(***************************************************************************)
\* the objects the alternate search method m returns when it finds some
AltObjects(m) == <<((m - 1) % NumIds) + 1>>

\* a search that requests every method and keeps the last one that finds
RECURSIVE AltSearchLast(_, _)
AltSearchLast(a, m) ==
  IF m > AltMethods
  THEN [found |-> 0, called |-> <<>>]
  ELSE LET rest == AltSearchLast(a, m + 1) IN
       [found |-> IF rest.found # 0 THEN rest.found
                  ELSE IF m \in a THEN m ELSE 0,
        called |-> <<m>> \o rest.called]

\* try_alternate_search: "for params in methods", from method m on; the
\* first method that answers with at least one object returns
RECURSIVE AltSearch(_, _)
AltSearch(a, m) ==
  IF m > AltMethods
  THEN [found |-> 0, called |-> <<>>]
  ELSE IF m \in a
  THEN [found |-> m, called |-> <<m>>]
  ELSE LET rest == AltSearch(a, m + 1) IN
       [found |-> rest.found, called |-> <<m>> \o rest.called]

\* the strategies that yield an image URL for the object:
\* 1 get_image_from_object, 2 try_get_images, 3 get_direct_image_links
Yields(id, k) ==
  CASE kind[id] \in {"noimage", "nodetail", "nullnoimg"} -> FALSE
    [] kind[id] = "viaapi" -> k \in {2, 3}
    [] kind[id] = "viadirect" -> k = 3
    [] OTHER -> TRUE

\* a resolution that invokes every strategy and keeps the last URL
ResolveLast(id) ==
  [url |-> IF Yields(id, 3) THEN 3 ELSE IF Yields(id, 2) THEN 2
           ELSE IF ~DetailFails(id) /\ Yields(id, 1) THEN 1 ELSE 0,
   called |-> {1, 2, 3}]

\* scrape, "Try multiple methods to get an image URL": the strategy whose
\* URL is kept (0: none) and the strategies invoked
Resolve(id) ==
  LET c1 == IF ~DetailFails(id) THEN {1} ELSE {}
      u1 == IF ~DetailFails(id) /\ Yields(id, 1) THEN 1 ELSE 0
      c2 == IF u1 = 0 THEN c1 \cup {2} ELSE c1
      u2 == IF u1 # 0 THEN u1 ELSE IF Yields(id, 2) THEN 2 ELSE 0
      c3 == IF u2 = 0 THEN c2 \cup {3} ELSE c2
      u3 == IF u2 # 0 THEN u2 ELSE IF Yields(id, 3) THEN 3 ELSE 0 IN
  [url |-> u3, called |-> c3]

UrlStrategy(id) == Resolve(id).url

\* scrape: the while test, search_objects, try_alternate_search, the breaks
CooperSearch ==
  LET resp == PageAt(script[t], page)
      first == IF resp.st = "ok" THEN resp.objs ELSE <<>>
      other == IF first # <<>> THEN [found |-> 0, called |-> <<>>]
               ELSE AltSearch(alt, 1)
      objs == IF first # <<>> THEN first
              ELSE IF other.found # 0 THEN AltObjects(other.found) ELSE <<>> IN
  /\ provider = "cooper"
  /\ ctl = "loop"
  /\ IF page <= MaxPage
     THEN /\ hist' = IF resp.st \in {"transport", "badjson"}
                     THEN Searched(hist, resp, page)
                     ELSE [Searched(hist, resp, page) EXCEPT
                             !.primaryOk = first # <<>>,
                             !.altCalled = other.called,
                             !.altFound = other.found]
          /\ IF resp.st \in {"transport", "badjson"}
             THEN /\ ctl' = "crashed"
                  /\ UNCHANGED <<items, task>>
             ELSE IF objs # <<>>
             THEN StartPool(objs)
             ELSE /\ ctl' = "ret"
                  /\ UNCHANGED <<items, task>>
     ELSE /\ ctl' = "ret"
          /\ UNCHANGED <<hist, items, task>>
  /\ UNCHANGED <<env, run, t, page, count, total, disk, mem, disk1>>

\* scrape, one object: get_object_details
CooperDetail(i) ==
  LET id == items[i] IN
  /\ provider = "cooper"
  /\ CanStartSeq(i)
  /\ task' = [task EXCEPT ![i] = [@ EXCEPT !.seen = id \in disk.meta,
                                           !.pc = "resolve", !.det = @ + 1]]
  /\ hist' = [hist EXCEPT !.det[id] = Bump(@)]
  /\ UNCHANGED <<env, run, ctl, t, page, count, total, items, disk, mem, disk1>>

\* scrape, one object: the three methods that look for an image URL, and
\* the _noimage metadata file when none finds one
CooperResolve(i) ==
  LET id == items[i] IN
  /\ provider = "cooper"
  /\ At(i, "resolve")
  /\ IF FieldNull(id)
     THEN \* "for c in title" on None raises, in no try
          /\ task' = [task EXCEPT ![i] =
                        Raised([@ EXCEPT !.strat = Resolve(id).called,
                                         !.src = UrlStrategy(id)])]
          /\ hist' = Counted(hist, FALSE)
          /\ disk' = disk
          /\ ctl' = "crashed"
     ELSE IF UrlStrategy(id) = 0
     THEN /\ task' = [task EXCEPT ![i] =
                        Returned([@ EXCEPT !.strat = Resolve(id).called], FALSE)]
          /\ hist' = Counted(hist, FALSE)
          /\ disk' = IF WriteFails(id) THEN disk
                     ELSE [disk EXCEPT !.noimg = @ \cup {id}]
          /\ ctl' = ctl
     ELSE /\ task' = [task EXCEPT ![i] = [@ EXCEPT !.pc = "dl",
                                                   !.strat = Resolve(id).called,
                                                   !.src = UrlStrategy(id)]]
          /\ UNCHANGED <<hist, disk, ctl>>
  /\ UNCHANGED <<env, run, t, page, count, total, items, mem, disk1>>

\* download_image of cooper: the Content-Type test, the status test, the file
CooperDownload(i) ==
  LET id == items[i]
      h == [hist EXCEPT !.dl[id] = Bump(@)] IN
  /\ provider = "cooper"
  /\ At(i, "dl")
  /\ IF ImageTyped(id) /\ ImageFetchOk(id)
     THEN /\ task' = [task EXCEPT ![i] = [@ EXCEPT !.pc = "write", !.dl = @ + 1,
                                                   !.dlok = "ok"]]
          /\ hist' = h
          /\ disk' = [disk EXCEPT !.img = @ \cup {id}]
     ELSE /\ task' = [task EXCEPT ![i] =
                        Returned([@ EXCEPT !.dl = @ + 1, !.dlok = "fail"], FALSE)]
          /\ hist' = Counted(h, FALSE)
          /\ disk' = disk
  /\ UNCHANGED <<env, run, ctl, t, page, count, total, items, mem, disk1>>

\* scrape, one object: save_metadata and total_downloaded += 1
CooperSave(i) ==
  LET id == items[i] IN
  /\ provider = "cooper"
  /\ At(i, "write")
  /\ IF WriteFails(id)
     THEN /\ task' = [task EXCEPT ![i] = Returned(@, FALSE)]
          /\ hist' = Counted(hist, FALSE)
          /\ UNCHANGED <<disk, count>>
     ELSE /\ task' = [task EXCEPT ![i] = Returned([@ EXCEPT !.wr = @ + 1], TRUE)]
          /\ hist' = Counted([hist EXCEPT !.wr[id] = Bump(@)], TRUE)
          /\ disk' = [disk EXCEPT !.meta = @ \cup {id}]
          /\ count' = count + 1
  /\ UNCHANGED <<env, run, ctl, t, page, total, items, mem, disk1>>

\* scrape: current_page += 1
CooperJoin ==
  /\ provider = "cooper"
  /\ ctl = "pool"
  /\ AllDone
  /\ page' = NextPage(page)
  /\ hist' = [hist EXCEPT !.sawLast = @ \/ Len(items) < PageSize]
  /\ ctl' = "loop"
  /\ items' = <<>>
  /\ task' = <<>>
  /\ UNCHANGED <<env, run, t, count, total, disk, mem, disk1>>

\* scrape: return total_downloaded
CooperFinish ==
  /\ provider = "cooper"
  /\ ctl = "ret"
  /\ total' = count
  /\ ctl' = "finished"
  /\ hist' = [hist EXCEPT !.termsDone = 1]
  /\ UNCHANGED <<env, run, t, page, count, items, task, disk, mem, disk1>>

(***************************************************************************)
(* smithsonian-cloud-scraper.py: search_and_download                       *)
(***************************************************************************)
\* a unit test that finds no item to be from NMNH
NoUnitCode(id) == FALSE

\* is_from_nmnh(item)
IsFromNmnh(id) == kind[id] = "nmnh"

Inc(n) == Min(n + 1, ProcCap)

\* the while test and the search request; any exception breaks the loop
SmithSearch ==
  LET resp == PageAt(script[t], page) IN
  /\ provider = "smithsonian"
  /\ ctl = "loop"
  /\ hist' = Searched(hist, resp, page)
  /\ IF resp.st = "ok" /\ resp.objs # <<>>
     THEN StartPool(resp.objs)
     ELSE /\ ctl' = "ret"
          /\ UNCHANGED <<items, task>>
  /\ UNCHANGED <<env, run, t, page, count, total, disk, mem, disk1>>

\* one item: is_from_nmnh, has_downloadable_image, get_image_url
SmithStart(i) ==
  LET id == items[i] IN
  /\ provider = "smithsonian"
  /\ CanStartSeq(i)
  /\ IF IsFromNmnh(id)
     THEN /\ task' = [task EXCEPT ![i] = Returned([@ EXCEPT !.exc = TRUE], FALSE)]
          /\ mem' = [mem EXCEPT !.nmnh = Inc(@)]
          /\ hist' = Counted(hist, FALSE)
     ELSE IF ~HasImage(id)
     THEN /\ task' = [task EXCEPT ![i] = Returned([@ EXCEPT !.exc = TRUE], FALSE)]
          /\ mem' = mem
          /\ hist' = Counted(hist, FALSE)
     ELSE /\ task' = [task EXCEPT ![i] = [@ EXCEPT !.seen = id \in disk.meta,
                                                   !.exc = TRUE, !.pc = "write"]]
          /\ mem' = [mem EXCEPT !.eligible = Inc(@)]
          /\ hist' = hist
  /\ UNCHANGED <<env, run, ctl, t, page, count, total, items, disk, disk1>>

\* one item: "Save metadata to JSON file" and attempted_downloads += 1
SmithWrite(i) ==
  LET id == items[i] IN
  /\ provider = "smithsonian"
  /\ At(i, "write")
  /\ IF WriteFails(id)
     THEN \* the exception leaves the for loop: "except Exception: break"
          /\ task' = [j \in DOMAIN task |->
                        IF j = i THEN Raised(task[j])
                        ELSE IF task[j].pc = "queued"
                        THEN [task[j] EXCEPT !.pc = "done", !.can = TRUE]
                        ELSE task[j]]
          /\ hist' = Counted(hist, FALSE)
          /\ UNCHANGED <<disk, mem>>
     ELSE /\ task' = [task EXCEPT ![i] = [@ EXCEPT !.pc = "dl", !.wr = @ + 1]]
          /\ hist' = [hist EXCEPT !.wr[id] = Bump(@)]
          /\ disk' = [disk EXCEPT !.meta = @ \cup {id}]
          /\ mem' = [mem EXCEPT !.attempted = Inc(@)]
  /\ UNCHANGED <<env, run, ctl, t, page, count, total, items, disk1>>

\* one item: download_image and the two success counters
SmithDownload(i) ==
  LET id == items[i]
      tk == [task[i] EXCEPT !.dl = @ + 1, !.dlok = Downloaded(ImageFetchOk(id))]
      h == [hist EXCEPT !.dl[id] = Bump(@)] IN
  /\ provider = "smithsonian"
  /\ At(i, "dl")
  /\ IF ImageFetchOk(id)
     THEN /\ task' = [task EXCEPT ![i] = Returned(tk, TRUE)]
          /\ hist' = Counted(h, TRUE)
          /\ disk' = [disk EXCEPT !.img = @ \cup {id}]
          /\ mem' = [mem EXCEPT !.successful = Inc(@)]
          /\ count' = Inc(count)
     ELSE /\ task' = [task EXCEPT ![i] = Returned(tk, FALSE)]
          /\ hist' = Counted(h, FALSE)
          /\ UNCHANGED <<disk, mem, count>>
  /\ UNCHANGED <<env, run, ctl, t, page, total, items, disk1>>

\* after the page's items: start_index += len(items), the last-page test;
\* after an exception: the break of the except clause
SmithJoin ==
  /\ provider = "smithsonian"
  /\ ctl = "pool"
  /\ AllDone
  /\ IF SomeRaised
     THEN /\ ctl' = "ret"
          /\ UNCHANGED <<page, hist>>
          /\ mem' = mem
     ELSE /\ page' = NextPage(page)
          /\ mem' = [mem EXCEPT !.start = Min(@ + Len(items), ProcCap)]
          /\ hist' = [hist EXCEPT !.sawLast = @ \/ Len(items) < PageSize]
          /\ ctl' = IF LastPage(Len(items)) THEN "ret" ELSE "loop"
  /\ items' = <<>>
  /\ task' = <<>>
  /\ UNCHANGED <<env, run, t, count, total, disk, disk1>>

\* "Finished processing."
SmithFinish ==
  /\ provider = "smithsonian"
  /\ ctl = "ret"
  /\ total' = count
  /\ ctl' = "finished"
  /\ hist' = [hist EXCEPT !.termsDone = 1]
  /\ UNCHANGED <<env, run, t, page, count, items, task, disk, mem, disk1>>

PoolStep ==
  \E i \in 1..PageSize :
    \/ RijksStart(i)
    \/ RijksDetail(i)
    \/ RijksDownload(i)
    \/ HarvardStart(i)
    \/ HarvardDownload(i)
    \/ MetStart(i)
    \/ MetDetail(i)
    \/ MetDownload(i)
    \/ WriteMetadata(i)

SeqStep ==
  \E i \in 1..PageSize :
    \/ EurStart(i)
    \/ EurDownload(i)
    \/ CooperDetail(i)
    \/ CooperResolve(i)
    \/ CooperDownload(i)
    \/ CooperSave(i)
    \/ SmithStart(i)
    \/ SmithWrite(i)
    \/ SmithDownload(i)

Next ==
  \/ PoolStep
  \/ PoolCancel
  \/ RijksSearch
  \/ RijksJoin
  \/ HarvardSearch
  \/ HarvardJoin
  \/ MetSearch
  \/ MetJoin
  \/ Return
  \/ SeqStep
  \/ EurSearch
  \/ EurJoin
  \/ EurFinish
  \/ CooperSearch
  \/ CooperJoin
  \/ CooperFinish
  \/ SmithSearch
  \/ SmithJoin
  \/ SmithFinish
  \/ SecondRun

Spec == Init /\ [][Next]_vars

(***************************************************************************)
(* The exclusion predicates applied to one record.                         *)
(***************************************************************************)
ExclInit ==
  /\ provider = "europeana"
  /\ kind = [id \in Ids |-> "ok"]
  /\ script = << <<OkPage(<<>>)>> >>
  /\ alt = {}
  /\ jsonErr = "ValueError"
  /\ apiKey = "given"
  /\ maxResults = CapHigh
  /\ run = 1
  /\ ctl = "finished"
  /\ t = 1
  /\ page = 1
  /\ count = 0
  /\ total = 0
  /\ items = <<>>
  /\ task = <<>>
  /\ disk = EmptyDisk
  /\ mem = EmptyMem
  /\ hist = EmptyHist
  /\ disk1 = EmptyDisk
  /\ \/ \E item \in EurItems : px = [NoPx EXCEPT !.fn = "europeana", !.item = item]
     \/ \E rec \in Records : px = [NoPx EXCEPT !.fn = "harvard", !.rec = rec]

\* europeana: self.should_exclude_item(item)
ExclEuropeana ==
  /\ px.fn = "europeana"
  /\ ~px.done
  /\ px' = [px EXCEPT !.done = TRUE, !.out = should_exclude_item(px.item)]
  /\ UNCHANGED <<provider, kind, script, alt, jsonErr, apiKey, maxResults, run, ctl, t,
                 page,
                 count, total, items, task, disk, mem, hist, disk1>>

\* harvard, met: should_exclude(record)
ExclHarvard ==
  /\ px.fn = "harvard"
  /\ ~px.done
  /\ px' = [px EXCEPT !.done = TRUE, !.out = should_exclude(px.rec)]
  /\ UNCHANGED <<provider, kind, script, alt, jsonErr, apiKey, maxResults, run, ctl, t,
                 page,
                 count, total, items, task, disk, mem, hist, disk1>>

ExclNext == ExclEuropeana \/ ExclHarvard

ExclSpec == ExclInit /\ [][ExclNext]_vars

(***************************************************************************)
(* The filename stems: what each script puts between the output directory  *)
(* and the extension, computed from the identifier and the title of one    *)
(* record.                                                                 *)
(***************************************************************************)
Digits == {"0", "1", "2", "3", "4", "5", "6", "7", "8", "9"}

\* c.isalnum() of one character
IsAlnum(c) ==
  \/ \E n \in DOMAIN UpperCase : UpperCase[n] = c
  \/ \E n \in DOMAIN LowerCase : LowerCase[n] = c
  \/ c \in Digits
  \/ c \in {"U+0130", "U+03D2"}

\* str.replace(old, new) for a one-character old
PyReplace(str, old, new) ==
  [k \in DOMAIN str |-> IF str[k] = old THEN new ELSE str[k]]

\* a slice that keeps the whole sequence
NoSlice(str, n) == str

\* str[:n]
PySlice(str, n) == SubSeq(str, 1, Min(n, Len(str)))

\* c if c.isalnum() else '_', for every character
AlnumOrUnderscore(str) ==
  [k \in DOMAIN str |-> IF IsAlnum(str[k]) THEN str[k] ELSE "_"]

\* rijks process_artwork: safe_id
RijksSafeId(object_number) ==
  PyReplace(PyReplace(object_number, "/", "_"), " ", "_")

\* europeana run: safe_id
EurSafeId(item_id) == PyReplace(PyReplace(item_id, "/", "_"), "\\", "_")

\* cooper scrape: safe_title, and the stem f"{object_id}_{safe_title}"
safe_title(title) == PySlice(AlnumOrUnderscore(title), TitleMax)

CooperStem(object_id, title) == object_id \o <<"_">> \o safe_title(title)

\* smithsonian: clean_filename ("not title" holds of '' and of None), applied
\* to f"{item_id}_{title}"
clean_filename(title) ==
  IF title \in {<<>>, <<"None">>} THEN <<"u", "n", "k", "n", "o", "w", "n">>
  ELSE PySlice(PyLower(AlnumOrUnderscore(title)), CleanMax)

SmithStem(item_id, title) == clean_filename(item_id \o <<"_">> \o title)

\* the characters of the identifiers and titles of the model
StemChars == {"a", "B", "7", "/", "\\", ".", " "}

Strs(n) == UNION {[1..k -> StemChars] : k \in 0..n}

\* an identifier longer than any stem clean_filename returns
LongId == [k \in 1..(CleanMax + 1) |-> "a"]

\* an identifier that names the parent directory
ParentId == <<".", ".", "/", "a">>

StemIds == Strs(StemLen) \cup {LongId, ParentId}

StemTitles == {<<>>, <<"a", " ", "B">>, [k \in 1..(TitleMax + 1) |-> "B"]}

SanProviders == {"rijks", "europeana", "cooper", "smithsonian"}

SanInit ==
  /\ provider = "europeana"
  /\ kind = [id \in Ids |-> "ok"]
  /\ script = << <<OkPage(<<>>)>> >>
  /\ alt = {}
  /\ jsonErr = "ValueError"
  /\ apiKey = "given"
  /\ maxResults = CapHigh
  /\ run = 1
  /\ ctl = "finished"
  /\ t = 1
  /\ page = 1
  /\ count = 0
  /\ total = 0
  /\ items = <<>>
  /\ task = <<>>
  /\ disk = EmptyDisk
  /\ mem = EmptyMem
  /\ hist = EmptyHist
  /\ disk1 = EmptyDisk
  /\ \/ \E fn \in SanProviders, id \in StemIds, title \in StemTitles :
          px = [NoPx EXCEPT !.fn = fn, !.id = id, !.title = title]
     \/ \E fn \in {"rijks_pair", "europeana_pair", "smithsonian_pair"},
           a \in Strs(StemLen) \ {<<>>}, b \in Strs(StemLen) \ {<<>>},
           title \in {<<>>, <<"a", " ", "B">>} :
          /\ a # b
          /\ px = [fn |-> fn, done |-> FALSE, ids |-> <<a, b>>,
                   title |-> title, stems |-> <<>>]
     \/ \E title \in UNION {[1..k -> StemChars \cup {"U+0130", "U+03D2"}] :
                                k \in 0..StemLen}
                      \cup {<<"None">>, LongId, [k \in 1..CleanMax |-> "U+0130"]} :
          px = [NoPx EXCEPT !.fn = "clean_filename", !.title = title]

\* rijks process_artwork: "if not object_number: return False", then safe_id
SanRijks ==
  /\ px.fn = "rijks"
  /\ ~px.done
  /\ px.id # <<>>
  /\ px' = [px EXCEPT !.done = TRUE, !.stem = RijksSafeId(px.id)]
  /\ UNCHANGED <<provider, kind, script, alt, jsonErr, apiKey, maxResults, run, ctl, t,
                 page,
                 count, total, items, task, disk, mem, hist, disk1>>

\* europeana run: safe_id, filename
SanEuropeana ==
  /\ px.fn = "europeana"
  /\ ~px.done
  /\ px' = [px EXCEPT !.done = TRUE, !.stem = EurSafeId(px.id)]
  /\ UNCHANGED <<provider, kind, script, alt, jsonErr, apiKey, maxResults, run, ctl, t,
                 page,
                 count, total, items, task, disk, mem, hist, disk1>>

\* cooper scrape: image_filename, metadata_filename
SanCooper ==
  /\ px.fn = "cooper"
  /\ ~px.done
  /\ px' = [px EXCEPT !.done = TRUE, !.stem = CooperStem(px.id, px.title)]
  /\ UNCHANGED <<provider, kind, script, alt, jsonErr, apiKey, maxResults, run, ctl, t,
                 page,
                 count, total, items, task, disk, mem, hist, disk1>>

\* smithsonian search_and_download: filename
SanSmithsonian ==
  /\ px.fn = "smithsonian"
  /\ ~px.done
  /\ px' = [px EXCEPT !.done = TRUE, !.stem = SmithStem(px.id, px.title)]
  /\ UNCHANGED <<provider, kind, script, alt, jsonErr, apiKey, maxResults, run, ctl, t,
                 page,
                 count, total, items, task, disk, mem, hist, disk1>>

\* rijks process_artwork on two records: the safe_id of each
PairRijks ==
  /\ px.fn = "rijks_pair"
  /\ ~px.done
  /\ px' = [px EXCEPT !.done = TRUE,
                      !.stems = <<RijksSafeId(px.ids[1]), RijksSafeId(px.ids[2])>>]
  /\ UNCHANGED <<provider, kind, script, alt, jsonErr, apiKey, maxResults, run, ctl, t,
                 page, count, total, items, task, disk, mem, hist, disk1>>

\* europeana run on two items: the safe_id of each
PairEuropeana ==
  /\ px.fn = "europeana_pair"
  /\ ~px.done
  /\ px' = [px EXCEPT !.done = TRUE,
                      !.stems = <<EurSafeId(px.ids[1]), EurSafeId(px.ids[2])>>]
  /\ UNCHANGED <<provider, kind, script, alt, jsonErr, apiKey, maxResults, run, ctl, t,
                 page, count, total, items, task, disk, mem, hist, disk1>>

\* smithsonian search_and_download on two items of one title: the filename
\* of each
PairSmithsonian ==
  /\ px.fn = "smithsonian_pair"
  /\ ~px.done
  /\ px' = [px EXCEPT !.done = TRUE,
                      !.stems = <<SmithStem(px.ids[1], px.title),
                                  SmithStem(px.ids[2], px.title)>>]
  /\ UNCHANGED <<provider, kind, script, alt, jsonErr, apiKey, maxResults, run, ctl, t,
                 page, count, total, items, task, disk, mem, hist, disk1>>

\* smithsonian clean_filename(title), one call
CleanFilename ==
  /\ px.fn = "clean_filename"
  /\ ~px.done
  /\ px' = [px EXCEPT !.done = TRUE, !.stem = clean_filename(px.title)]
  /\ UNCHANGED <<provider, kind, script, alt, jsonErr, apiKey, maxResults, run, ctl, t,
                 page, count, total, items, task, disk, mem, hist, disk1>>

SanNext ==
  \/ SanRijks
  \/ SanEuropeana
  \/ SanCooper
  \/ SanSmithsonian
  \/ CleanFilename
  \/ PairRijks
  \/ PairEuropeana
  \/ PairSmithsonian

SanSpec == SanInit /\ [][SanNext]_vars


(***************************************************************************)
(* The pooled scripts on a page with more candidates than the pool has      *)
(* workers.                                                                 *)
(***************************************************************************)
\* a page of MaxWorkers + 1 candidates, the identifiers in turn
WidePage == [i \in 1..(MaxWorkers + 1) |-> ((i - 1) % NumIds) + 1]

WideInit ==
  /\ provider \in Pooled
  /\ kind \in {[id \in Ids |-> "ok"],
               [id \in Ids |-> IF id = 1 THEN "wrfail" ELSE "ok"]}
  /\ script = << <<OkPage(WidePage), OkPage(<<>>)>>, <<OkPage(Short)>> >>
  /\ alt = {}
  /\ jsonErr = "ValueError"
  /\ apiKey = "given"
  /\ maxResults = 2 * (MaxWorkers + 1)
  /\ run = 1
  /\ ctl = "loop"
  /\ t = 1
  /\ page = 1
  /\ count = 0
  /\ total = 0
  /\ items = <<>>
  /\ task = <<>>
  /\ disk = Prepared
  /\ mem = EmptyMem
  /\ hist = EmptyHist
  /\ disk1 = EmptyDisk
  /\ px = NoPx

WideStep ==
  \E i \in 1..(MaxWorkers + 1) :
    \/ RijksStart(i)
    \/ RijksDetail(i)
    \/ RijksDownload(i)
    \/ HarvardStart(i)
    \/ HarvardDownload(i)
    \/ MetStart(i)
    \/ MetDetail(i)
    \/ MetDownload(i)
    \/ WriteMetadata(i)

WideNext ==
  \/ WideStep
  \/ PoolCancel
  \/ RijksSearch
  \/ RijksJoin
  \/ HarvardSearch
  \/ HarvardJoin
  \/ MetSearch
  \/ MetJoin
  \/ Return

WideSpec == WideInit /\ [][WideNext]_vars

(***************************************************************************)
(* The start of each script: the credential, the output directories.       *)
(***************************************************************************)
StartInit ==
  /\ provider \in Providers
  /\ kind \in {[id \in Ids |-> "ok"]} \cup
              IF provider \in {"harvard", "met"}
              THEN {[id \in Ids |-> IF id = 1 THEN "wrfail" ELSE "ok"]}
              ELSE {}
  /\ script \in IF provider \in Pooled
                THEN {<<a, <<OkPage(Short)>> >> :
                        a \in {<<OkPage(Full), OkPage(Short)>>, <<ErrPage("httperr")>>}}
                ELSE {<<a>> :
                        a \in {<<OkPage(Full), OkPage(Short)>>, <<ErrPage("httperr")>>}}
  /\ alt = {}
  /\ jsonErr = "ValueError"
  /\ apiKey \in IF provider = "met" THEN {"given"} ELSE {"given", "missing"}
  /\ maxResults = CapHigh
  /\ run = 1
  /\ ctl = "start"
  /\ t = 1
  /\ page = 1
  /\ count = 0
  /\ total = 0
  /\ items = <<>>
  /\ task = <<>>
  /\ disk = EmptyDisk
  /\ mem = EmptyMem
  /\ hist = EmptyHist
  /\ disk1 = EmptyDisk
  /\ px = NoPx

\* rijks main: 'if API_KEY == "YOUR_API_KEY": return', then setup_directories
RijksMain ==
  /\ provider = "rijks"
  /\ ctl = "start"
  /\ IF apiKey = "missing"
     THEN /\ ctl' = "stopped"
          /\ disk' = disk
     ELSE /\ ctl' = "loop"
          /\ disk' = [disk EXCEPT !.dirs = TRUE]
  /\ UNCHANGED <<env, run, t, page, count, total, items, task, mem, hist, disk1>>

\* harvard main: 'if API_KEY == "YOUR_API_KEY": return', then setup_directories
HarvardMain ==
  /\ provider = "harvard"
  /\ ctl = "start"
  /\ IF apiKey = "missing"
     THEN /\ ctl' = "stopped"
          /\ disk' = disk
     ELSE /\ ctl' = "loop"
          /\ disk' = [disk EXCEPT !.dirs = TRUE]
  /\ UNCHANGED <<env, run, t, page, count, total, items, task, mem, hist, disk1>>

\* met main: the API takes no credential; setup_directories
MetMain ==
  /\ provider = "met"
  /\ ctl = "start"
  /\ ctl' = "loop"
  /\ disk' = [disk EXCEPT !.dirs = TRUE]
  /\ UNCHANGED <<env, run, t, page, count, total, items, task, mem, hist, disk1>>

\* europeana main: --api-key is required=True (parse_args exits without it),
\* then __init__ makes the output directory
EurMain ==
  /\ provider = "europeana"
  /\ ctl = "start"
  /\ IF apiKey = "missing"
     THEN /\ ctl' = "stopped"
          /\ disk' = disk
     ELSE /\ ctl' = "loop"
          /\ disk' = [disk EXCEPT !.dirs = TRUE]
  /\ UNCHANGED <<env, run, t, page, count, total, items, task, mem, hist, disk1>>

\* cooper __main__: API_KEY is the literal of the script, whatever it is;
\* __init__ makes the directories and scrape is called
CooperMain ==
  /\ provider = "cooper"
  /\ ctl = "start"
  /\ ctl' = "loop"
  /\ disk' = [disk EXCEPT !.dirs = TRUE]
  /\ UNCHANGED <<env, run, t, page, count, total, items, task, mem, hist, disk1>>

\* smithsonian: API_KEY = os.getenv(..., 'YOUR_API_KEY_HERE'), os.makedirs at
\* module level, then search_and_download()
SmithMain ==
  /\ provider = "smithsonian"
  /\ ctl = "start"
  /\ ctl' = "loop"
  /\ disk' = [disk EXCEPT !.dirs = TRUE]
  /\ UNCHANGED <<env, run, t, page, count, total, items, task, mem, hist, disk1>>

StartNext ==
  \/ RijksMain
  \/ HarvardMain
  \/ MetMain
  \/ EurMain
  \/ CooperMain
  \/ SmithMain
  \/ PoolStep
  \/ PoolCancel
  \/ RijksSearch
  \/ RijksJoin
  \/ HarvardSearch
  \/ HarvardJoin
  \/ MetSearch
  \/ MetJoin
  \/ Return
  \/ SeqStep
  \/ EurSearch
  \/ EurJoin
  \/ EurFinish
  \/ CooperSearch
  \/ CooperJoin
  \/ CooperFinish
  \/ SmithSearch
  \/ SmithJoin
  \/ SmithFinish

StartSpec == StartInit /\ [][StartNext]_vars

(***************************************************************************)
(* Records with a null or empty optional field, in the four scripts that    *)
(* read such a field without a test.                                        *)
(***************************************************************************)
OptInit ==
  /\ provider \in {"rijks", "met", "europeana", "cooper"}
  /\ kind \in [Ids -> IF provider = "cooper"
                       THEN {"ok", "noimage", "nullfield", "nullnoimg"}
                       ELSE {"ok", "nullfield"}]
  /\ script \in IF provider \in Pooled
                THEN {<<a, <<OkPage(Short)>> >> :
                        a \in {<<OkPage(Full), OkPage(Short)>>, <<OkPage(Dup)>>}}
                ELSE {<<a>> : a \in {<<OkPage(Full), OkPage(Short)>>, <<OkPage(Dup)>>}}
  /\ alt = {}
  /\ jsonErr = "ValueError"
  /\ apiKey = "given"
  /\ maxResults \in {CapLow, CapHigh}
  /\ run = 1
  /\ ctl = "loop"
  /\ t = 1
  /\ page = 1
  /\ count = 0
  /\ total = 0
  /\ items = <<>>
  /\ task = <<>>
  /\ disk = Prepared
  /\ mem = EmptyMem
  /\ hist = EmptyHist
  /\ disk1 = EmptyDisk
  /\ px = NoPx

OptStep ==
  \E i \in 1..PageSize :
    \/ RijksStart(i)
    \/ RijksDetail(i)
    \/ RijksDownload(i)
    \/ MetStart(i)
    \/ MetDetail(i)
    \/ MetDownload(i)
    \/ WriteMetadata(i)
    \/ EurStart(i)
    \/ EurDownload(i)
    \/ CooperDetail(i)
    \/ CooperResolve(i)
    \/ CooperDownload(i)
    \/ CooperSave(i)

OptNext ==
  \/ OptStep
  \/ PoolCancel
  \/ RijksSearch
  \/ RijksJoin
  \/ MetSearch
  \/ MetJoin
  \/ Return
  \/ EurSearch
  \/ EurJoin
  \/ EurFinish
  \/ CooperSearch
  \/ CooperJoin
  \/ CooperFinish

OptSpec == OptInit /\ [][OptNext]_vars

(***************************************************************************)
(* The additional images of harvard and met process_object.  An entry of   *)
(* the record's list is what its URL ends with: ".jpg", ".png", "" (no     *)
(* extension), or NoUrl (harvard: no baseimageurl key; met: an empty       *)
(* string).                                                                *)
(***************************************************************************)
NoUrl == <<"none">>

ImageEntries == {<<".", "j", "p", "g">>, <<".", "p", "n", "g">>, <<>>, NoUrl}

DefaultExt == <<".", "j", "p", "g">>

\* os.path.splitext(url)[1], with ".jpg" for none
ExtOf(entry) == IF entry = <<>> THEN DefaultExt ELSE entry

\* str(n) of a number of one digit
PyStr(n) == <<(<<"1", "2", "3", "4", "5", "6", "7", "8", "9">>)[n]>>

\* f"{object_id}_additional_{i+1}{ext}"
AdditionalName(object_id, n, ext) ==
  object_id \o <<"_", "a", "d", "d", "i", "t", "i", "o", "n", "a", "l", "_">>
            \o PyStr(n) \o ext

\* "for i, img in enumerate(images[:5])": the files written from entry k on
RECURSIVE AdditionalFrom(_, _, _)
AdditionalFrom(object_id, cut, k) ==
  IF k > Len(cut) THEN <<>>
  ELSE IF cut[k] = NoUrl THEN AdditionalFrom(object_id, cut, k + 1)
  ELSE <<AdditionalName(object_id, k, ExtOf(cut[k]))>>
         \o AdditionalFrom(object_id, cut, k + 1)

AdditionalFiles(object_id, imgs) ==
  AdditionalFrom(object_id, PySlice(imgs, AdditionalMax), 1)

ImageLists == UNION {[1..k -> ImageEntries] : k \in 0..MaxImages}

AddInit ==
  /\ provider = "harvard"
  /\ kind = [id \in Ids |-> "ok"]
  /\ script = << <<OkPage(<<>>)>> >>
  /\ alt = {}
  /\ jsonErr = "ValueError"
  /\ apiKey = "given"
  /\ maxResults = CapHigh
  /\ run = 1
  /\ ctl = "finished"
  /\ t = 1
  /\ page = 1
  /\ count = 0
  /\ total = 0
  /\ items = <<>>
  /\ task = <<>>
  /\ disk = EmptyDisk
  /\ mem = EmptyMem
  /\ hist = EmptyHist
  /\ disk1 = EmptyDisk
  /\ \E fn \in {"harvard", "met"}, imgs \in ImageLists :
       px = [NoPx EXCEPT !.fn = fn, !.id = <<"7">>, !.imgs = imgs]

\* harvard process_object: "Process additional images"
AddHarvard ==
  /\ px.fn = "harvard"
  /\ ~px.done
  /\ px' = [px EXCEPT !.done = TRUE,
                      !.files = IF px.imgs # <<>>
                                THEN AdditionalFiles(px.id, px.imgs) ELSE <<>>]
  /\ UNCHANGED <<provider, kind, script, alt, jsonErr, apiKey, maxResults, run, ctl, t,
                 page, count, total, items, task, disk, mem, hist, disk1>>

\* met process_object: "Download additional images if available"
AddMet ==
  /\ px.fn = "met"
  /\ ~px.done
  /\ px' = [px EXCEPT !.done = TRUE, !.files = AdditionalFiles(px.id, px.imgs)]
  /\ UNCHANGED <<provider, kind, script, alt, jsonErr, apiKey, maxResults, run, ctl, t,
                 page, count, total, items, task, disk, mem, hist, disk1>>

AddNext == AddHarvard \/ AddMet

AddSpec == AddInit /\ [][AddNext]_vars

(***************************************************************************)
(* The URL helpers of cooper, one call each: download_image on a response  *)
(* drawn from the statuses, the declared types and the failures a request  *)
(* can meet.  px holds the call: its argument, what it returned, the       *)
(* operations it performed in their order, and the target file.            *)
(***************************************************************************)
\* a prefix test that every string passes
AnyPrefix(str, prefix) == TRUE

\* str.startswith(prefix)
PyStartsWith(str, prefix) ==
  /\ Len(str) >= Len(prefix)
  /\ SubSeq(str, 1, Len(prefix)) = prefix

\* 'image/'
ImagePrefix == <<"i", "m", "a", "g", "e", "/">>

\* download_image: the request, the Content-Type test, the status test, the
\* file; an exception at any point is caught and the result is False
download_image(resp, file) ==
  IF resp.raises = "get"
  THEN [ret |-> "False", log |-> <<"get">>, file |-> file]
  ELSE IF ~PyStartsWith(resp.ctype, ImagePrefix)
  THEN [ret |-> "False", log |-> <<"get", "type">>, file |-> file]
  ELSE IF resp.status # 200
  THEN [ret |-> "False", log |-> <<"get", "type", "status">>, file |-> file]
  ELSE IF resp.raises = "open"
  THEN [ret |-> "False", log |-> <<"get", "type", "status", "open">>,
        file |-> file]
  ELSE IF resp.raises = "stream"
  THEN [ret |-> "False", log |-> <<"get", "type", "status", "open", "write">>,
        file |-> "partial"]
  ELSE [ret |-> "True", log |-> <<"get", "type", "status", "open", "write">>,
        file |-> "written"]

\* download_image of rijks (harvard, met and smithsonian have the same body):
\* the request, raise_for_status, the file; an exception is caught and the
\* result is False
rijks_download_image(resp, file) ==
  IF resp.raises = "get" THEN [ret |-> "False", log |-> <<"get">>, file |-> file]
  ELSE IF resp.status >= 400
  THEN [ret |-> "False", log |-> <<"get", "status">>, file |-> file]
  ELSE IF resp.raises = "open"
  THEN [ret |-> "False", log |-> <<"get", "status", "open">>, file |-> file]
  ELSE IF resp.raises = "stream"
  THEN [ret |-> "False", log |-> <<"get", "status", "open", "write">>,
        file |-> "partial"]
  ELSE [ret |-> "True", log |-> <<"get", "status", "open", "write">>,
        file |-> "written"]

\* europeana run, "Download image": the request, the status test, the file;
\* an exception is caught and the item is not counted
europeana_download(resp, file) ==
  IF resp.raises = "get" THEN [ret |-> "False", log |-> <<"get">>, file |-> file]
  ELSE IF resp.status # 200
  THEN [ret |-> "False", log |-> <<"get", "status">>, file |-> file]
  ELSE IF resp.raises = "open"
  THEN [ret |-> "False", log |-> <<"get", "status", "open">>, file |-> file]
  ELSE IF resp.raises = "stream"
  THEN [ret |-> "False", log |-> <<"get", "status", "open", "write">>,
        file |-> "partial"]
  ELSE [ret |-> "True", log |-> <<"get", "status", "open", "write">>,
        file |-> "written"]

\* the three URL patterns, in the order of the list "urls"
DirectPatterns == <<"images/{object_id}_large.jpg",
                    "iiif/{object_id}/full/full/0/default.jpg",
                    "{object_id}_b.jpg">>

\* a probe that passes whenever the request answers
ProbeAnswered(answer) == answer.raises = "none"

\* requests.head(url) answers 200 with a Content-Type that starts with 'image/'
ProbePasses(answer) ==
  /\ answer.raises = "none"
  /\ answer.status = 200
  /\ PyStartsWith(answer.ctype, ImagePrefix)

\* "for url in urls": the loop from pattern k on, log the probes made so far
RECURSIVE DirectFrom(_, _, _)
DirectFrom(answers, k, log) ==
  IF k > Len(DirectPatterns) THEN [ret |-> "None", log |-> log]
  ELSE IF ProbePasses(answers[k])
  THEN [ret |-> DirectPatterns[k], log |-> Append(log, DirectPatterns[k])]
  ELSE DirectFrom(answers, k + 1, Append(log, DirectPatterns[k]))

get_direct_image_links(answers) == DirectFrom(answers, 1, <<>>)

\* the size-class keys, in the order of preference
SizeOrder == <<"b", "z", "n", "d", "l", "o">>

\* what an image holds under a size-class key: nothing ("absent"), null, an
\* object without "url" ("nourl"), an object whose url is empty ("empty"), an
\* object with a url ("url")
Skipped(entry) == entry \in {"absent", "nourl"}

\* "for size in [...]: if size in img and "url" in img[size]": the first
\* size-class key from the r-th on that the test does not pass over
RECURSIVE WalkSizes(_, _)
WalkSizes(img, r) ==
  IF r > Len(SizeOrder) THEN [entry |-> "absent", size |-> "none"]
  ELSE IF Skipped(img[SizeOrder[r]]) THEN WalkSizes(img, r + 1)
  ELSE [entry |-> img[SizeOrder[r]], size |-> SizeOrder[r]]

\* a walk that takes the best size class populated in any image
RECURSIVE BestAnywhere(_, _, _)
BestAnywhere(images, k, method) ==
  LET hit == {<<j, r>> \in (DOMAIN images) \X (DOMAIN SizeOrder) :
                 images[j][SizeOrder[r]] = "url"} IN
  IF hit = {} THEN [st |-> "None", img |-> 0, size |-> "none"]
  ELSE LET best == CHOOSE h \in hit :
                     \A g \in hit : h[2] < g[2] \/ (h[2] = g[2] /\ h[1] <= g[1]) IN
       [st |-> "url", img |-> best[1], size |-> SizeOrder[best[2]]]

\* "for img in images": the walk from the k-th image on; get_image_from_object
\* (method 1) returns what it finds, the loop of scrape (method 2) goes on to
\* the next image when what it found is empty
RECURSIVE ImageFrom(_, _, _)
ImageFrom(images, k, method) ==
  IF k > Len(images) THEN [st |-> "None", img |-> 0, size |-> "none"]
  ELSE LET h == WalkSizes(images[k], 1) IN
       CASE h.entry = "absent" -> ImageFrom(images, k + 1, method)
         [] h.entry = "url" -> [st |-> "url", img |-> k, size |-> h.size]
         [] h.entry = "null" -> [st |-> "TypeError", img |-> k, size |-> h.size]
         [] h.entry = "empty" ->
              IF method = 1 THEN [st |-> "None", img |-> k, size |-> h.size]
              ELSE ImageFrom(images, k + 1, method)

\* get_image_from_object: the collection, then the record's own image.url
get_image_from_object(obj_data) ==
  LET r == ImageFrom(obj_data.images, 1, 1) IN
  IF r.st = "None" /\ r.img = 0 /\ obj_data.image = "url"
  THEN [st |-> "image", img |-> 0, size |-> "none"]
  ELSE r

\* images: one size class, two of them, a null one, one without url, one
\* with an empty url
ImageShapes ==
  LET None == [s \in {"b", "z", "n", "d", "l", "o"} |-> "absent"] IN
  {None,
   [None EXCEPT !["b"] = "url"], [None EXCEPT !["z"] = "url"],
   [None EXCEPT !["o"] = "url"],
   [None EXCEPT !["n"] = "url", !["d"] = "url"],
   [None EXCEPT !["l"] = "url", !["z"] = "nourl"],
   [None EXCEPT !["b"] = "null", !["z"] = "url"],
   [None EXCEPT !["d"] = "url", !["l"] = "null"],
   [None EXCEPT !["b"] = "empty", !["n"] = "url"]}

UrlInit ==
  /\ provider = "cooper"
  /\ kind = [id \in Ids |-> "ok"]
  /\ script = << <<OkPage(<<>>)>> >>
  /\ alt = {}
  /\ jsonErr = "ValueError"
  /\ apiKey = "given"
  /\ maxResults = CapHigh
  /\ run = 1
  /\ ctl = "finished"
  /\ t = 1
  /\ page = 1
  /\ count = 0
  /\ total = 0
  /\ items = <<>>
  /\ task = <<>>
  /\ disk = EmptyDisk
  /\ mem = EmptyMem
  /\ hist = EmptyHist
  /\ disk1 = EmptyDisk
  /\ \/ \E status \in {200, 201, 404, 500},
           ctype \in {<<"i", "m", "a", "g", "e", "/", "p", "n", "g">>,
                      <<"i", "m", "a", "g", "e">>,
                      <<"t", "e", "x", "t", "/", "h", "t", "m", "l">>,
                      <<>>},
           raises \in {"none", "get", "open", "stream"},
           file \in {"absent", "old"},
           fn \in {"download_image", "rijks_download_image", "europeana_download"} :
          px = [fn |-> fn, done |-> FALSE,
                arg |-> [status |-> status, ctype |-> ctype, raises |-> raises],
                ret |-> "none", log |-> <<>>, file |-> file, was |-> file]
     \/ \E answers \in [1..Len(DirectPatterns) ->
                          [status : {200, 404},
                           ctype : {<<"i", "m", "a", "g", "e", "/", "p", "n", "g">>,
                                    <<"t", "e", "x", "t", "/", "h", "t", "m", "l">>,
                                    <<>>},
                           raises : {"none", "head"}]] :
          px = [fn |-> "get_direct_image_links", done |-> FALSE,
                arg |-> answers, ret |-> "none", log |-> <<>>,
                file |-> "absent", was |-> "absent"]
     \/ \E fn \in {"get_image_from_object", "scrape"}, n \in 0..MaxColl,
           image \in {"absent", "url"} :
          \E images \in [1..n -> ImageShapes] :
            px = [fn |-> fn, done |-> FALSE,
                  arg |-> [images |-> images, image |-> image],
                  ret |-> "none", log |-> <<>>,
                  file |-> "absent", was |-> "absent"]

\* cooper download_image(url, filename)
DownloadImage ==
  /\ px.fn = "download_image"
  /\ ~px.done
  /\ LET r == download_image(px.arg, px.file) IN
       px' = [px EXCEPT !.done = TRUE, !.ret = r.ret, !.log = r.log,
                        !.file = r.file]
  /\ UNCHANGED <<provider, kind, script, alt, jsonErr, apiKey, maxResults, run, ctl, t,
                 page, count, total, items, task, disk, mem, hist, disk1>>

\* rijks download_image(url, filepath)
RijksDownloadImage ==
  /\ px.fn = "rijks_download_image"
  /\ ~px.done
  /\ LET r == rijks_download_image(px.arg, px.file) IN
       px' = [px EXCEPT !.done = TRUE, !.ret = r.ret, !.log = r.log,
                        !.file = r.file]
  /\ UNCHANGED <<provider, kind, script, alt, jsonErr, apiKey, maxResults, run, ctl, t,
                 page, count, total, items, task, disk, mem, hist, disk1>>

\* europeana run: the download of one item
EuropeanaDownload ==
  /\ px.fn = "europeana_download"
  /\ ~px.done
  /\ LET r == europeana_download(px.arg, px.file) IN
       px' = [px EXCEPT !.done = TRUE, !.ret = r.ret, !.log = r.log,
                        !.file = r.file]
  /\ UNCHANGED <<provider, kind, script, alt, jsonErr, apiKey, maxResults, run, ctl, t,
                 page, count, total, items, task, disk, mem, hist, disk1>>

\* cooper get_direct_image_links(object_id)
DirectImageLinks ==
  /\ px.fn = "get_direct_image_links"
  /\ ~px.done
  /\ LET r == get_direct_image_links(px.arg) IN
       px' = [px EXCEPT !.done = TRUE, !.ret = r.ret, !.log = r.log]
  /\ UNCHANGED <<provider, kind, script, alt, jsonErr, apiKey, maxResults, run, ctl, t,
                 page, count, total, items, task, disk, mem, hist, disk1>>

\* cooper get_image_from_object(obj_data), Method 1 of scrape
ImageFromObject ==
  /\ px.fn = "get_image_from_object"
  /\ ~px.done
  /\ px' = [px EXCEPT !.done = TRUE, !.ret = get_image_from_object(px.arg)]
  /\ UNCHANGED <<provider, kind, script, alt, jsonErr, apiKey, maxResults, run, ctl, t,
                 page, count, total, items, task, disk, mem, hist, disk1>>

\* cooper scrape, Method 2: the loop over the images of try_get_images
ImagesMethod2 ==
  /\ px.fn = "scrape"
  /\ ~px.done
  /\ px' = [px EXCEPT !.done = TRUE, !.ret = ImageFrom(px.arg.images, 1, 2)]
  /\ UNCHANGED <<provider, kind, script, alt, jsonErr, apiKey, maxResults, run, ctl, t,
                 page, count, total, items, task, disk, mem, hist, disk1>>

UrlNext ==
  \/ DownloadImage
  \/ RijksDownloadImage
  \/ EuropeanaDownload
  \/ DirectImageLinks
  \/ ImageFromObject
  \/ ImagesMethod2

UrlSpec == UrlInit /\ [][UrlNext]_vars

\* the program keeps running: every step that can be taken is taken
FairSpec == Spec /\ WF_vars(Next)

(***************************************************************************)
(* The claims.                                                             *)
(***************************************************************************)
AllKind(k) == \A id \in Ids : kind[id] = k

\* the script of the example: two full pages, then a last page
ThreePages == <<OkPage(Full), OkPage(Full), OkPage(Short)>>

\* the identifiers whose metadata the first run persisted
Persisted1 ==
  CASE provider = "europeana" ->
         {disk1.json.entries[k] : k \in DOMAIN disk1.json.entries}
    [] provider = "cooper" -> disk1.meta \cup disk1.noimg
    [] OTHER -> disk1.meta

Lowered(str) ==
  [k \in DOMAIN str |->
     IF \E n \in 1..26 : UpperCase[n] = str[k]
     THEN LowerCase[CHOOSE n \in 1..26 : UpperCase[n] = str[k]]
     ELSE str[k]]

Contains(hay, needle) ==
  \E off \in 0..(Len(hay) - Len(needle)) :
    SubSeq(hay, off + 1, off + Len(needle)) = needle

RECURSIVE SpaceJoined(_)
SpaceJoined(parts) ==
  IF parts = <<>> THEN <<>>
  ELSE IF Len(parts) = 1 THEN parts[1]
  ELSE parts[1] \o <<" ">> \o SpaceJoined(Tail(parts))

HoldsTerm(text) ==
  \E n \in DOMAIN EXCLUDED_TERMS :
    Contains(Lowered(text), Lowered(EXCLUDED_TERMS[n]))

\* the full text of the title, description, subject and creator fields
FullText ==
  IF px.fn = "europeana"
  THEN SpaceJoined(px.item.title \o px.item.dcDescription \o px.item.dcSubject
                   \o px.item.dcCreator)
  ELSE SpaceJoined([k \in {k \in DOMAIN px.rec :
                             px.rec[k][1] \in {KeyTitle, KeyDescription}}
                    |-> px.rec[k][2]])

C5_CapNeverExceeded == provider \in Capped => hist.succ <= maxResults

\* C6 as stated: a page with no candidates, or with fewer than the page size,
\* ends the term (no later page is requested); with pages of sizes
\* <<PageSize, PageSize, PageSize - 1>>, every item succeeding and a cap above
\* their sum, 3 pages are requested and the total is their sum.
C6_Example ==
  /\ script[t] = ThreePages
  /\ AllKind("ok")
  /\ maxResults = CapHigh
  /\ ctl = "ret"
  => /\ hist.searches = 3
     /\ count = 3 * PageSize - 1

C7_Terminates == <>(hist.termsDone > 0 \/ ctl \in {"ret", "finished", "crashed"})

\* C8 as stated: the count that rijks and harvard compare with the cap and
\* return is the number of item operations of the term that returned True.
C8_Original ==
  provider \in {"rijks", "harvard"} /\ ctl \in {"loop", "ret"} =>
    count = hist.succ

\* C8 amended: that holds of harvard; rijks adds len(art_objects) per page:
\* its count is the number of candidates of the fetched pages, whatever the
\* outcome of their processing.
C8_Amended ==
  /\ provider = "harvard" /\ ctl \in {"loop", "ret"} => count = hist.succ
  /\ provider = "rijks" /\ ctl \in {"loop", "ret"} => count = hist.proc

C8_Witness ==
  /\ provider = "harvard"
  /\ ctl = "ret"
  /\ count = hist.succ
  /\ 0 < hist.succ
  /\ hist.succ < hist.proc

\* C9: within one run every identifier's detail is requested, its assets are
\* downloaded and its metadata file is written at most once, in every
\* interleaving of the pool's workers.
C9_AtMostOnce ==
  provider \in Pooled =>
    \A id \in Ids : hist.det[id] <= 1 /\ hist.dl[id] <= 1 /\ hist.wr[id] <= 1

\* C10: a non-2xx status or a transport error on a request never aborts the
\* run.
C10_NeverAborts == ctl # "crashed"

\* C11: a 2xx search response whose body is not JSON or lacks the envelope
\* key is treated as an empty page: the term's pagination ends (no later page
\* is requested) and no error propagates out of the loop.
C11_MalformedIsEmptyPage ==
  hist.sawBad => ctl # "crashed" /\ ~hist.lateBad

\* C12: when the search of a page p > 1 fails or answers a malformed
\* response, the term's pagination ends with the progress of the earlier
\* pages preserved: the loop returns its count (it does not end on the
\* error) and europeana's metadata.json holds the records accumulated.
C12_ProgressPreserved ==
  hist.failPage > 1 =>
    /\ ctl # "crashed"
    /\ provider = "europeana" /\ ctl = "finished" =>
         disk.json = [exists |-> TRUE, entries |-> mem.metadata]

\* C13: within one page's pool a failure of one item operation, an uncaught
\* exception included, cancels no other operation of the page, and the
\* remaining pages and terms proceed (the run does not end on it).
C13_FailureStaysPerItem ==
  provider \in Pooled =>
    /\ \A i \in DOMAIN task : ~task[i].can
    /\ SomeRaised => ctl # "crashed"

\* C14: a filesystem failure while writing one item's metadata file is fatal
\* for that item's write only: the run does not crash and no sibling item is
\* left unprocessed.
C14_WriteFailureIsPerItem ==
  \A i \in DOMAIN task :
    WriteFails(items[i]) /\ task[i].pc = "done" /\ ~task[i].can =>
      /\ ctl # "crashed"
      /\ \A j \in DOMAIN task : ~task[j].can

MetadataKept(id) ==
  IF provider = "europeana"
  THEN \E k \in DOMAIN mem.metadata : mem.metadata[k] = id
  ELSE id \in disk.meta

\* C16: when an item's asset download is rejected or fails after its detail
\* record was obtained, the item's metadata file is still written.
C16_MetadataDespiteFailedDownload ==
  \A i \in DOMAIN task :
    /\ task[i].pc = "done"
    /\ task[i].dlok = "fail"
    /\ ~WriteFails(items[i])
    => MetadataKept(items[i])

HasParentComponent(stem) ==
  \E k \in 1..(Len(stem) - 2) :
    /\ stem[k] = "." /\ stem[k + 1] = "."
    /\ stem[k + 2] \in {"/", "\\"}
    /\ k = 1 \/ stem[k - 1] \in {"/", "\\"}

\* C18: every filename stem a script builds from the identifier and title of
\* a record holds no '/', no '\', no ".." path component, and is at most 100
\* characters long.
C18_StemSanitized ==
  px.done /\ px.fn \in SanProviders =>
    /\ \A k \in DOMAIN px.stem : px.stem[k] \notin {"/", "\\"}
    /\ ~HasParentComponent(px.stem)
    /\ Len(px.stem) <= 100

\* the strategy k yields a URL for the object (1 needs the detail record)
StrategyYields(id, k) == Yields(id, k) /\ (k = 1 => ~DetailFails(id))

\* C19: cooper tries the strategies in rank order (1 the detail record, 2 the
\* getImages / getMedia calls, 3 the direct URL patterns), each only if all
\* earlier ones yielded no URL; when a strategy yields a URL, that URL is the
\* one downloaded and no later strategy is invoked.
C19_FallbackOrder ==
  provider = "cooper" =>
    \A i \in DOMAIN task :
      LET id == items[i] IN
      /\ \A k \in task[i].strat :
           \A e \in 1..(k - 1) : ~StrategyYields(id, e)
      /\ task[i].strat # {} =>
           task[i].src = IF \E k \in 1..3 : StrategyYields(id, k)
                         THEN CHOOSE k \in 1..3 :
                                /\ StrategyYields(id, k)
                                /\ \A e \in 1..(k - 1) : ~StrategyYields(id, e)
                         ELSE 0
      /\ task[i].src # 0 =>
           /\ task[i].src \in task[i].strat
           /\ \A k \in task[i].strat : k <= task[i].src
      /\ task[i].dl > 0 => task[i].src # 0

C19_Witness ==
  /\ provider = "cooper"
  /\ \E i \in DOMAIN task :
       /\ kind[items[i]] = "viaapi"
       /\ task[i].strat = {1, 2}
       /\ task[i].src = 2
       /\ task[i].dl = 1

\* C20: cooper tries the alternate search methods only when the primary
\* search of the page returned no usable object; it tries them in their
\* listed order; the first one that returns an object supplies the page and
\* no later one is requested; when none returns an object the pagination
\* ends.
C20_AlternateSearch ==
  provider = "cooper" =>
    /\ hist.altCalled # <<>> => ~hist.primaryOk
    /\ \A k \in DOMAIN hist.altCalled : hist.altCalled[k] = k
    /\ hist.altFound # 0 =>
         /\ hist.altFound \in alt
         /\ \A m \in 1..(hist.altFound - 1) : m \notin alt
         /\ Len(hist.altCalled) = hist.altFound
         /\ ctl = "pool" => items = AltObjects(hist.altFound)
    /\ hist.altCalled # <<>> /\ hist.altFound = 0 =>
         /\ Len(hist.altCalled) = AltMethods
         /\ alt = {}
         /\ ctl \in {"ret", "finished"}

C20_Witness ==
  /\ provider = "cooper"
  /\ alt = {2, 3}
  /\ hist.altCalled = <<1, 2>>
  /\ hist.altFound = 2
  /\ ctl = "pool"
  /\ items = AltObjects(2)

\* C21: at every instant at most 5 item operations are being carried out,
\* and the controller leaves a page's pool (to request the next page or to
\* return to the loop over the terms) and issues a search request only when
\* every operation of the page has finished.
C21_BoundedPoolSequentialPages ==
  /\ [](Cardinality({i \in DOMAIN task :
                       task[i].pc \notin {"queued", "done"}}) <= 5)
  /\ [][(ctl # ctl' \/ hist.searches # hist'.searches \/ page # page' \/ t # t')
          => \A i \in DOMAIN task : task[i].pc = "done"]_vars

C21_Witness ==
  /\ provider = "rijks"
  /\ ctl = "pool"
  /\ Len(task) = 6
  /\ \A i \in 1..5 : task[i].pc \notin {"queued", "done"}
  /\ task[6].pc = "queued"

\* a step of a pooled script leaves the counters to the controller
CountersConfinedStep ==
  provider \in Pooled =>
    /\ (count' # count \/ total' # total) =>
         \A i \in DOMAIN task : task[i].pc = "done"
    /\ (ctl = "pool" /\ ctl' \in {"loop", "ret"}) =>
         count' = count + IF provider = "rijks" THEN Len(items)
                          ELSE Cardinality({i \in DOMAIN task : task[i].ok})
    /\ (ctl = "ret" /\ ctl' # "ret") => total' = total + count

\* C22: in the pooled scripts no step of a worker writes the per-term or the
\* overall counter: they change only when every operation of the page has
\* finished, and the value the controller then adds is a function of the
\* operations' outcomes (rijks: the number of candidates; harvard, met: the
\* number of operations that returned True), whatever their interleaving.
C22_CountersConfined == [][CountersConfinedStep]_vars

C22_Witness ==
  /\ provider = "harvard"
  /\ ctl = "ret"
  /\ count = PageSize
  /\ hist.succ = PageSize
  /\ total = 0

\* the run has issued no request and written no file
NothingDone ==
  /\ hist = EmptyHist
  /\ disk = EmptyDisk
  /\ mem = EmptyMem
  /\ items = <<>>

\* C23: when the API credential is missing (the placeholder is still in
\* place), the script stops at startup: no directory is made, no search,
\* detail or download request is issued and no file is written.
C23_MissingKeyStopsAtStartup ==
  apiKey = "missing" => ctl \in {"start", "stopped"} /\ NothingDone

\* C24: a record with a null or empty optional field is processed with the
\* field treated as absent: its operation raises no exception and the run
\* does not end on it.
C24_NullFieldIsAbsent ==
  \A i \in DOMAIN task :
    FieldNull(items[i]) /\ task[i].pc = "done" =>
      ~task[i].exn /\ ctl # "crashed"

\* C25: harvard and met write at most 5 additional images per item, each to
\* a file <id>_additional_<n><ext> with n in 1..5, no two to the same file
\* and none to the file of the primary image.
C25_AdditionalImages ==
  px.done /\ px.fn \in {"harvard", "met"} =>
    /\ Len(px.files) <= 5
    /\ \A k \in DOMAIN px.files :
         /\ \E n \in 1..5, e \in {<<".", "j", "p", "g">>, <<".", "p", "n", "g">>} :
              px.files[k] = px.id \o <<"_", "a", "d", "d", "i", "t", "i", "o",
                                      "n", "a", "l", "_">>
                                  \o <<(<<"1", "2", "3", "4", "5">>)[n]>> \o e
         /\ \A e \in {<<".", "j", "p", "g">>, <<".", "p", "n", "g">>} :
              px.files[k] # px.id \o e
         /\ \A j \in DOMAIN px.files : j # k => px.files[j] # px.files[k]

C25_Witness ==
  /\ px.done
  /\ px.fn = "harvard"
  /\ Len(px.imgs) = 6
  /\ \A k \in DOMAIN px.imgs : px.imgs[k] # <<"none">>
  /\ Len(px.files) = 5

\* the position of an operation in the call's log, 0 when it was not performed
LogAt(op) ==
  IF \E k \in DOMAIN px.log : px.log[k] = op
  THEN CHOOSE k \in DOMAIN px.log : px.log[k] = op
  ELSE 0

\* the response is an image answered with status 200
ImageAnswer ==
  /\ px.arg.ctype = <<"i", "m", "a", "g", "e", "/", "p", "n", "g">>
  /\ px.arg.status = 200
  /\ px.arg.raises # "get"

\* C26: cooper's download_image touches the target file and returns True
\* only for a response of status 200 whose Content-Type begins with image/;
\* it returns False for a type that is no image, a status other than 200 and
\* an exception; the Content-Type is tested before the status is, and before
\* the file is opened.
C26_DownloadImageChecksType ==
  px.fn = "download_image" /\ px.done =>
    /\ px.ret \in {"True", "False"}
    /\ px.ret = "True" => ImageAnswer /\ px.arg.raises = "none"
    /\ px.file # px.was => ImageAnswer
    /\ ~ImageAnswer \/ px.arg.raises # "none" => px.ret = "False"
    /\ LogAt("status") # 0 => 0 < LogAt("type") /\ LogAt("type") < LogAt("status")
    /\ LogAt("open") # 0 => 0 < LogAt("type") /\ LogAt("type") < LogAt("open")

C26_Witness ==
  /\ px.fn = "download_image"
  /\ px.done
  /\ px.arg.status = 200
  /\ px.arg.ctype = <<"t", "e", "x", "t", "/", "h", "t", "m", "l">>
  /\ px.arg.raises = "none"
  /\ px.ret = "False"
  /\ px.file = "absent"
  /\ px.log = <<"get", "type">>

\* the HEAD probe of the k-th pattern answers 200 with an image type
GoodAnswer(k) ==
  /\ px.arg[k].raises = "none"
  /\ px.arg[k].status = 200
  /\ px.arg[k].ctype = <<"i", "m", "a", "g", "e", "/", "p", "n", "g">>

\* C27: cooper's get_direct_image_links returns a pattern's URL only if the
\* HEAD probe of that URL answered 200 with a Content-Type beginning with
\* image/; the patterns are probed in their listed order, the first that
\* passes is returned and the later ones are not probed; it returns None when
\* none passes, a probe that raises counting as one that does not pass.
C27_DirectLinksProbed ==
  px.fn = "get_direct_image_links" /\ px.done =>
    /\ \A k \in DOMAIN DirectPatterns :
         px.ret = DirectPatterns[k] =>
           /\ GoodAnswer(k)
           /\ \A j \in 1..(k - 1) : ~GoodAnswer(j)
           /\ px.log = SubSeq(DirectPatterns, 1, k)
    /\ (\E k \in DOMAIN DirectPatterns : GoodAnswer(k)) => px.ret # "None"
    /\ px.ret = "None" => px.log = DirectPatterns
    /\ px.ret = "None" \/ \E k \in DOMAIN DirectPatterns : px.ret = DirectPatterns[k]

C27_Witness ==
  /\ px.fn = "get_direct_image_links"
  /\ px.done
  /\ px.arg[1].raises = "head"
  /\ px.arg[2].raises = "none" /\ px.arg[2].status = 200
  /\ px.arg[2].ctype = <<"i", "m", "a", "g", "e", "/", "p", "n", "g">>
  /\ px.arg[3].raises = "none" /\ px.arg[3].status = 200
  /\ px.arg[3].ctype = <<"i", "m", "a", "g", "e", "/", "p", "n", "g">>
  /\ px.ret = DirectPatterns[2]
  /\ px.log = SubSeq(DirectPatterns, 1, 2)

\* the rank of a size class: 1 for b, 6 for o
RankOf(size) == CHOOSE r \in 1..6 : (<<"b", "z", "n", "d", "l", "o">>)[r] = size

SizeWalked == px.fn \in {"get_image_from_object", "scrape"} /\ px.done

\* what the k-th image holds under the size class of rank r
EntryAt(k, r) == px.arg.images[k][(<<"b", "z", "n", "d", "l", "o">>)[r]]

\* the walk passes over the whole k-th image: no size class of it holds a
\* url key (or, in the loop of scrape, the first that does holds an empty url)
PassedOver(k) ==
  \/ \A r \in 1..6 : EntryAt(k, r) \in {"absent", "nourl"}
  \/ /\ px.fn = "scrape"
     /\ \E r \in 1..6 : /\ EntryAt(k, r) = "empty"
                        /\ \A q \in 1..(r - 1) : EntryAt(k, q) \in {"absent", "nourl"}

\* C28 as stated: the URL returned from a nested image collection is never of
\* a lower-ranked size class when a higher-ranked one is populated anywhere
\* in the collection.
C28_Original ==
  SizeWalked /\ px.ret.st = "url" =>
    \A k \in DOMAIN px.arg.images : \A r \in 1..6 :
      EntryAt(k, r) = "url" => RankOf(px.ret.size) <= r

\* C28 amended: the images are walked in their order and, within an image,
\* the size classes in the order b, z, n, d, l, o; the walk stops at the first
\* entry that holds a url key: the URL returned is the highest-ranked
\* populated size class of the first image that has one, whatever later
\* images hold. An empty url there gives no URL (get_image_from_object) or
\* moves to the next image (the loop of scrape); a null size class raises.
C28_Amended ==
  SizeWalked =>
    /\ px.ret.st \in {"url", "TypeError"} =>
         /\ px.ret.img \in DOMAIN px.arg.images
         /\ EntryAt(px.ret.img, RankOf(px.ret.size))
              = (IF px.ret.st = "url" THEN "url" ELSE "null")
         /\ \A q \in 1..(RankOf(px.ret.size) - 1) :
              EntryAt(px.ret.img, q) \in {"absent", "nourl"}
         /\ \A j \in 1..(px.ret.img - 1) : PassedOver(j)
    /\ px.ret.st \in {"None", "image"} =>
         \/ \A j \in DOMAIN px.arg.images : PassedOver(j)
         \/ /\ px.fn = "get_image_from_object"
            /\ px.ret.st = "None"
            /\ px.ret.img \in DOMAIN px.arg.images
            /\ EntryAt(px.ret.img, RankOf(px.ret.size)) = "empty"
            /\ \A q \in 1..(RankOf(px.ret.size) - 1) :
                 EntryAt(px.ret.img, q) \in {"absent", "nourl"}
            /\ \A j \in 1..(px.ret.img - 1) : PassedOver(j)

C28_Witness ==
  /\ px.fn = "get_image_from_object"
  /\ px.done
  /\ Len(px.arg.images) = 2
  /\ EntryAt(1, 6) = "url"
  /\ EntryAt(2, 1) = "url"
  /\ px.ret = [st |-> "url", img |-> 1, size |-> "o"]

\* an ASCII letter or digit, or one of the two other alphanumeric characters
\* of the model (both are upper-case letters)
Alphanumeric(c) ==
  \/ \E n \in 1..26 : c = UpperCase[n] \/ c = LowerCase[n]
  \/ c \in {"0", "1", "2", "3", "4", "5", "6", "7", "8", "9", "U+0130", "U+03D2"}

UpperLetter(c) == (\E n \in 1..26 : c = UpperCase[n]) \/ c \in {"U+0130", "U+03D2"}

\* C29: for every input string clean_filename returns a string of at most
\* 100 characters, each alphanumeric or '_' and none an upper-case letter;
\* it returns 'unknown' for an empty or missing input; and applying it to its
\* own result returns that result.
C29_CleanFilename ==
  px.fn = "clean_filename" /\ px.done =>
    /\ Len(px.stem) <= 100
    /\ \A k \in DOMAIN px.stem :
         (Alphanumeric(px.stem[k]) \/ px.stem[k] = "_") /\ ~UpperLetter(px.stem[k])
    /\ px.title \in {<<>>, <<"None">>} => px.stem = <<"u", "n", "k", "n", "o", "w", "n">>
    /\ clean_filename(px.stem) = px.stem

\* C30: in cooper's scrape, an object for which no strategy yields an image
\* URL has its metadata saved under the _noimage.json name, has no image
\* file written and is not counted as downloaded, and the objects after it
\* are processed.
C30_NoImageStillSaved ==
  provider = "cooper" =>
    \A i \in DOMAIN task :
      task[i].pc = "done" /\ UrlStrategy(items[i]) = 0 =>
        /\ items[i] \in disk.noimg
        /\ items[i] \notin disk.img
        /\ ~task[i].ok
        /\ ~task[i].exn
        /\ ctl # "crashed"

C32_FailureLeavesNoFile ==
  /\ px.fn \in {"download_image", "rijks_download_image", "europeana_download"}
  /\ px.done
  /\ px.ret = "False"
  /\ px.was = "absent"
  => px.file = "absent"

\* C33: within one provider's output directory two distinct identifiers
\* never get the same file name: the derivation of the name from the
\* identifier (rijks safe_id, europeana safe_id, smithsonian clean_filename
\* of identifier and title) is injective.
C33_StemInjective ==
  /\ px.fn \in {"rijks_pair", "europeana_pair", "smithsonian_pair"}
  /\ px.done
  /\ px.ids[1] # px.ids[2]
  =>
    px.stems[1] # px.stems[2]

\* C34 as stated: in every state of rijks, harvard, met and smithsonian, an
\* item whose metadata file exists has no asset download still to come.
C34_Original ==
  provider \in Pooled \cup {"smithsonian"} =>
    \A i \in DOMAIN task : items[i] \in disk.meta => task[i].pc # "dl"

\* C34 amended: an operation of rijks, harvard or met writes the metadata
\* file as its last step, after its download attempts; smithsonian writes the
\* metadata file first and downloads afterwards.
C34_Amended ==
  /\ provider \in Pooled =>
       \A i \in DOMAIN task :
         /\ task[i].wr > 0 => task[i].pc = "done"
         /\ task[i].wr > 0 /\ HasImage(items[i]) => task[i].dlok # "none"
         /\ task[i].pc \in {"detail", "dl"} => task[i].wr = 0
  /\ provider = "smithsonian" =>
       \A i \in DOMAIN task :
         task[i].pc = "dl" => task[i].wr = 1 /\ items[i] \in disk.meta

C34_Witness ==
  /\ provider = "rijks"
  /\ Len(task) = 2
  /\ items[1] # items[2]
  /\ task[1].pc = "done" /\ task[1].wr = 1 /\ task[1].dlok = "fail"
  /\ items[1] \in disk.meta
  /\ task[2].pc = "dl" /\ task[2].wr = 0
  /\ items[2] \notin disk.meta

\* C35: in europeana's run the metadata list has exactly downloaded_count
\* entries, one per image written in this run, downloaded_count never exceeds
\* max_images, and whenever run has ended metadata.json holds exactly those
\* entries in download order.
C35_MetadataListMatchesCount ==
  provider = "europeana" =>
    /\ Len(mem.metadata) = count
    /\ \A k \in DOMAIN mem.metadata : mem.metadata[k] \in disk.img
    /\ count <= maxResults
    /\ ctl = "finished" => disk.json.exists
    /\ ctl \in {"finished", "crashed"} => disk.json.entries = mem.metadata

\* the metadata writes of the run, summed over the identifiers
RECURSIVE WritesOf(_)
WritesOf(ids) ==
  IF ids = {} THEN 0
  ELSE LET id == CHOOSE x \in ids : TRUE IN hist.wr[id] + WritesOf(ids \ {id})

\* no counter of the model has reached the value at which it stops counting
Uncapped ==
  /\ \A id \in Ids : hist.wr[id] < CountCap
  /\ hist.proc < ProcCap

\* C36: in smithsonian's search_and_download, at every item boundary,
\* total_processed = successful_downloads <= attempted_downloads <=
\* eligible_items, attempted_downloads is the number of metadata writes
\* performed, and an item from NMNH is counted as excluded only: it is not
\* eligible, not downloaded and has no metadata written.
C36_SmithCounters ==
  provider = "smithsonian" =>
    /\ count = mem.successful
    /\ mem.successful <= mem.attempted
    /\ mem.attempted <= mem.eligible
    /\ Uncapped => mem.attempted = WritesOf(Ids)
    /\ Uncapped =>
         mem.eligible + mem.nmnh
           <= hist.proc + Cardinality({i \in DOMAIN task : task[i].pc \in {"write", "dl"}})
    /\ \A id \in Ids :
         kind[id] = "nmnh" =>
           /\ hist.dl[id] = 0
           /\ hist.wr[id] = 0
           /\ id \notin disk.meta \cup disk.img

C36_Witness ==
  /\ provider = "smithsonian"
  /\ ctl = "finished"
  /\ mem.nmnh >= 1
  /\ mem.eligible >= 1
  /\ mem.attempted = mem.eligible
  /\ mem.successful = mem.attempted
  /\ count = mem.successful
  /\ \E id \in Ids : kind[id] = "nmnh"

\* C37: the search requests of one term ask for consecutive parts of the
\* result: rijks, harvard and cooper for the pages 1, 2, 3, ...; europeana
\* for the start offsets 1, 1 + rows, 1 + 2 rows, ..., each one more than the
\* rows received so far; smithsonian for the start offset that is the number
\* of rows received so far, 0 at first.
C37_ConsecutiveRequests ==
  \A k \in DOMAIN hist.asked :
    /\ provider \in {"rijks", "harvard", "cooper"} => hist.asked[k].param = k
    /\ provider = "europeana" =>
         /\ hist.asked[k].param = ((k - 1) * PageSize) + 1
         /\ hist.asked[k].param = hist.asked[k].rows + 1
    /\ provider = "smithsonian" =>
         /\ hist.asked[k].param = hist.asked[k].rows
         /\ k = 1 => hist.asked[k].param = 0

C37_Witness ==
  /\ provider = "europeana"
  /\ Len(hist.asked) = 3
  /\ hist.asked[3] = [param |-> (2 * PageSize) + 1, rows |-> 2 * PageSize]

====
